---- MODULE Spec2Model ----
(***************************************************************************)
(* Conversation/session orchestrator of the production-order assistant.    *)
(*                                                                         *)
(* Two orchestrators live in the repository and both are modelled:         *)
(*   - ProductionAgent (src/src/agent.py): in-process state, reaches the   *)
(*     record repository through the HTTP wrappers of src/src/tools.py,    *)
(*     which end in the REST handlers of src/src/api.py;                   *)
(*   - chat_endpoint (src/src/api.py): state persisted per phone number in *)
(*     the chat_sessions table, reaches the tables directly.               *)
(*                                                                         *)
(* Conventions.  A text is a tuple of one-character strings.  Python None  *)
(* for an optional object is the empty tuple << >> and a present object x  *)
(* is <<x>>; for an optional text, None and "" are both << >> (the code    *)
(* only tests such values for truthiness).  A dict with a fixed key set is *)
(* a record whose absent keys hold << >> or "absent".                      *)
(***************************************************************************)
EXTENDS Integers, Sequences, FiniteSets, TLC

VARIABLES
    db,         \* the record repository: tables ordem_pedido and pecas
    st,         \* ProductionAgent.state
    turn,       \* observation of the last ProductionAgent.process_input call
    sessions,   \* the table chat_sessions: the row of each phone number
    chat,       \* observation of the last chat_endpoint request
    reqs        \* the chat_endpoint requests in flight: their local variables

vars == <<db, st, turn, sessions, chat, reqs>>

---------------------------------------------------------------------------
(* Bounds *)

\* rows ever inserted in ordem_pedido
MaxOrders == 2
\* rows ever inserted in pecas
MaxParts == 1
\* requests to POST /chat in one behaviour
MaxTurns == 4
\* parts of the order of the largest repository snapshot
SnapshotParts == 2
\* requests to POST /chat after which no further delete or update request
\* is given to both orchestrators
MaxRequests == 2

---------------------------------------------------------------------------
(* Texts *)

LowerChar(c) ==
    CASE c = "A" -> "a"
      [] c = "B" -> "b"
      [] c = "S" -> "s"
      [] c = "I" -> "i"
      [] c = "M" -> "m"
      [] c = "E" -> "e"
      [] c = "P" -> "p"
      [] OTHER -> c

\* str.lower()
Lower(s) == [i \in 1..Len(s) |-> LowerChar(s[i])]

\* Python "needle in hay" on strings
Contains(hay, needle) ==
    \E i \in 0..(Len(hay) - Len(needle)) :
        SubSeq(hay, i + 1, i + Len(needle)) = needle

\* PostgREST column.ilike.%query% : case-insensitive substring
ILike(column, query) == Contains(Lower(column), Lower(query))

T_sim    == <<"s", "i", "m">>
T_SIM    == <<"S", "I", "M">>
T_ok     == <<"o", "k">>
T_nao    == <<"n", "a", "o">>
T_naoTil == <<"n", "ã", "o">>
T_talvez == <<"t", "a", "l", "v", "e", "z">>
T_simNao == <<"s", "i", "m", " ", "n", "a", "o">>
T_cancel == <<"c", "a", "n", "c", "e", "l">>

\* user messages of a turn
Messages == {T_sim, T_SIM, T_ok, T_nao, T_naoTil, T_talvez, T_simNao, T_cancel}

\* order codes (random.choices over uppercase letters and digits), part names
Codes     == {<<"A", "1">>, <<"B", "2">>}
PartNames == {<<"a", "b", "a">>}

\* free-text queries produced by the extractor; << >> is None
Queries == {<< >>, <<"a">>, <<"a", "1">>, <<"a", "n">>, <<"z">>}

StatusOrder == <<"E", "m", " ", "P", "r", "o", "d", "u", "ç", "ã", "o">>
StatusPart  == <<"P", "e", "n", "d", "e", "n", "t", "e">>

---------------------------------------------------------------------------
(* Record repository: the REST handlers of api.py over the two tables.     *)
(* db = [ordem_pedido: set of order rows, pecas: set of part rows,         *)
(*       n_orders, n_parts: rows ever inserted].                           *)
(* An order row is [id, codigo_op, nome_cliente, status]; a part row is    *)
(* [id_peca, nome_peca, codigo_op, nome_cliente, status].  The other       *)
(* columns (dates, prices, quantities) are not represented: no search      *)
(* reads them, and an update of one of them leaves the modelled row as is. *)
(* Every handler wraps its body in try/except and answers 500 when a table *)
(* call raises; `ok` is whether the table calls of one request went        *)
(* through.  A handler yields the new db and the HTTP status.              *)

EmptyDb == [ordem_pedido |-> {}, pecas |-> {}, n_orders |-> 0, n_parts |-> 0]

\* api.search_orders: all rows when the query is empty, else ilike on
\* nome_cliente, codigo_op, status
ApiSearchOrders(d, query) ==
    IF query = << >> THEN d.ordem_pedido
    ELSE {o \in d.ordem_pedido :
            \/ ILike(o.nome_cliente, query)
            \/ ILike(o.codigo_op, query)
            \/ ILike(o.status, query)}

\* a search_parts that does not look at the order code
ApiSearchPartsNoCode(d, query) ==
    IF query = << >> THEN d.pecas
    ELSE {p \in d.pecas :
            \/ ILike(p.nome_peca, query)
            \/ ILike(p.nome_cliente, query)
            \/ ILike(p.status, query)}

\* api.search_parts: all rows when the query is empty, else ilike on
\* nome_peca, nome_cliente, codigo_op, status
ApiSearchParts(d, query) ==
    IF query = << >> THEN d.pecas
    ELSE {p \in d.pecas :
            \/ ILike(p.nome_peca, query)
            \/ ILike(p.nome_cliente, query)
            \/ ILike(p.codigo_op, query)
            \/ ILike(p.status, query)}

\* api.create_order: a random code, status "Em Produção", one insert
ApiCreateOrder(d, order, codigo_op, ok) ==
    IF ok /\ d.n_orders < MaxOrders
    THEN [db |-> [d EXCEPT !.ordem_pedido = @ \cup
                        {[id |-> d.n_orders + 1,
                          codigo_op |-> codigo_op,
                          nome_cliente |-> order.nome_cliente,
                          status |-> StatusOrder]},
                      !.n_orders = @ + 1],
          status |-> 200, codigo_op |-> codigo_op]
    ELSE [db |-> d, status |-> 500, codigo_op |-> << >>]

\* the rows api.create_parts builds for a payload list, ids taken from `from`
RECURSIVE PartRows(_, _, _, _)
PartRows(pecas, codigo_op, order_info, from) ==
    IF pecas = << >> THEN {}
    ELSE {[id_peca |-> from + 1,
           nome_peca |-> Head(pecas).nome_peca,
           codigo_op |-> codigo_op,
           nome_cliente |-> order_info.nome_cliente,
           status |-> StatusPart]}
         \cup PartRows(Tail(pecas), codigo_op, order_info, from + 1)

\* api.create_parts: 404 (answered as 500) when the order does not exist,
\* else one insert of all the rows, each carrying the order's client
ApiCreateParts(d, codigo_op, pecas, ok) ==
    LET found == {o \in d.ordem_pedido : o.codigo_op = codigo_op} IN
    IF ok /\ found # {} /\ d.n_parts + Len(pecas) <= MaxParts
    THEN [db |-> [d EXCEPT !.pecas = @ \cup
                        PartRows(pecas, codigo_op, CHOOSE o \in found : TRUE, d.n_parts),
                      !.n_parts = @ + Len(pecas)],
          status |-> 200]
    ELSE [db |-> d, status |-> 500]

\* api.delete_order: parts of the order, then the order; 404 (as 500) when
\* no order row was deleted
ApiDeleteOrder(d, codigo_op, ok) ==
    IF ~ok THEN [db |-> d, status |-> 500]
    ELSE [db |-> [d EXCEPT !.pecas = {p \in @ : p.codigo_op # codigo_op},
                           !.ordem_pedido = {o \in @ : o.codigo_op # codigo_op}],
          status |-> IF \E o \in d.ordem_pedido : o.codigo_op = codigo_op
                     THEN 200 ELSE 500]

\* api.delete_part
ApiDeletePart(d, part_id, ok) ==
    IF ~ok THEN [db |-> d, status |-> 500]
    ELSE [db |-> [d EXCEPT !.pecas = {p \in @ : p.id_peca # part_id}],
          status |-> IF \E p \in d.pecas : p.id_peca = part_id THEN 200 ELSE 500]

\* a row after table.update(fields): fields is a set of <<column, value>>
RowUpdate(row, fields) ==
    [k \in DOMAIN row |->
        IF \E f \in fields : f[1] = k
        THEN (CHOOSE f \in fields : f[1] = k)[2]
        ELSE row[k]]

\* api.update_order
ApiUpdateOrder(d, codigo_op, fields, ok) ==
    IF ok /\ \E o \in d.ordem_pedido : o.codigo_op = codigo_op
    THEN [db |-> [d EXCEPT !.ordem_pedido =
                        {IF o.codigo_op = codigo_op THEN RowUpdate(o, fields) ELSE o : o \in @}],
          status |-> 200]
    ELSE [db |-> d, status |-> 500]

\* api.update_part
ApiUpdatePart(d, part_id, fields, ok) ==
    IF ok /\ \E p \in d.pecas : p.id_peca = part_id
    THEN [db |-> [d EXCEPT !.pecas =
                        {IF p.id_peca = part_id THEN RowUpdate(p, fields) ELSE p : p \in @}],
          status |-> 200]
    ELSE [db |-> d, status |-> 500]

---------------------------------------------------------------------------
(* Extraction results (tools.extract_data_from_message): the JSON object   *)
(* the extractor returns, or None.  The extractor is an external language  *)
(* model: its output is an input of the turn.                              *)

\* a part payload of "pecas" / "parts_data"
PartPayloads == {[nome_peca |-> n, quantidade |-> 1] : n \in PartNames}

\* "data": the accumulated order fields
DataDict(nome_cliente, data_entrega, preco_total, pecas) ==
    [nome_cliente |-> nome_cliente, data_entrega |-> data_entrega,
     preco_total |-> preco_total, pecas |-> pecas]

T_date == <<"d", "1">>
OnePart == <<CHOOSE p \in PartPayloads : TRUE>>

IntentFlags == {"is_order_intent", "is_search_intent", "is_delete_intent",
                "is_update_intent", "is_add_part_intent"}

\* the flag sets tried: none, each flag alone, each pair, all five
FlagSets == {f \in SUBSET IntentFlags : Cardinality(f) <= 2 \/ f = IntentFlags}

\* delete_target / update_target ("" is None)
Targets == {"order", "part", "any"}

\* update_fields is None (<< >>) or a dict <<d>>, d a set of <<column, value>>;
\* target_op, codigo_op and missing_message are read by chat_endpoint only

Result(flags, data, missing, target, query, fields, missing_val, parts) ==
    [is_order_intent    |-> "is_order_intent" \in flags,
     is_search_intent   |-> "is_search_intent" \in flags,
     is_delete_intent   |-> "is_delete_intent" \in flags,
     is_update_intent   |-> "is_update_intent" \in flags,
     is_add_part_intent |-> "is_add_part_intent" \in flags,
     data |-> data,
     missing_fields |-> missing,
     search_query |-> query,
     delete_target |-> target, delete_query |-> query,
     update_target |-> target, update_query |-> query,
     update_fields |-> fields,
     missing_update_value |-> missing_val,
     parts_data |-> parts,
     target_op |-> << >>,
     codigo_op |-> << >>,
     missing_message |-> << >>]

P(data, missing, target, query, fields, missing_val, parts) ==
    [data |-> data, missing |-> missing, target |-> target, query |-> query,
     fields |-> fields, missing_val |-> missing_val, parts |-> parts]

NoData == <<DataDict(<< >>, << >>, "absent", << >>)>>
SetPrice == <<{<<"preco_total", <<"5">>>>}>>

\* order payloads: complete, complete with parts, incomplete, with a null
\* price, without data, with the date alone and the client listed as
\* missing, without a date and nothing listed as missing
OrderPayloads ==
    {P(<<DataDict(<<"a", "n", "a">>, T_date, "num", << >>)>>, {}, "", << >>, << >>, "", << >>),
     P(<<DataDict(<<"a", "n", "a">>, T_date, "num", OnePart)>>, {}, "", << >>, << >>, "", << >>),
     P(<<DataDict(<<"a", "n", "a">>, << >>, "absent", << >>)>>, {"data_entrega"}, "", << >>, << >>, "", << >>),
     P(<<DataDict(<<"a", "n", "a">>, T_date, "null", << >>)>>, {}, "", << >>, << >>, "", << >>),
     P(<< >>, {}, "", << >>, << >>, "", << >>),
     P(<<DataDict(<< >>, T_date, "absent", << >>)>>, {"nome_cliente"}, "", << >>, << >>, "", << >>),
     P(<<DataDict(<<"a", "n", "a">>, << >>, "num", << >>)>>, {}, "", << >>, << >>, "", << >>)}

\* search payloads
SearchPayloads ==
    {P(NoData, {}, "", q, << >>, "", << >>) : q \in Queries}

\* delete and update payloads: a target, a query, the fields to set
TargetPayloads ==
    {P(NoData, {}, t, q, SetPrice, "", << >>) :
        t \in Targets, q \in {<< >>, <<"a">>, <<"a", "1">>}}
    \cup {P(NoData, {}, "order", <<"z">>, SetPrice, "", << >>)}

\* update payloads lacking the value, or whose fields are null or empty
UpdatePayloads ==
    {P(NoData, {}, "order", <<"a", "1">>, << >>, "preco_total", << >>),
     P(NoData, {}, "order", <<"a", "1">>, << >>, "", << >>),
     P(NoData, {}, "any", <<"a", "1">>, <<{}>>, "", << >>)}

\* parts payloads: with and without a client, without parts, incomplete
PartsPayloads ==
    {P(NoData, {}, "", << >>, << >>, "", OnePart),
     P(<<DataDict(<<"a", "n", "a">>, << >>, "absent", << >>)>>, {}, "", << >>, << >>, "", OnePart),
     P(<<DataDict(<<"a", "n", "a">>, << >>, "absent", << >>)>>, {}, "", << >>, << >>, "", << >>),
     P(NoData, {"nome_peca"}, "", << >>, << >>, "", OnePart)}

\* a payload that every branch can act on
FullPayload ==
    P(<<DataDict(<<"a", "n", "a">>, T_date, "num", << >>)>>, {}, "any", <<"a">>,
      SetPrice, "", OnePart)

Mk(flags, p) ==
    <<Result(flags, p.data, p.missing, p.target, p.query, p.fields, p.missing_val, p.parts)>>

\* what extract_data_from_message may return: None (<< >>), a result with
\* one flag and the payload of that intent, a result with no flag, or a
\* result with several flags
Extractions ==
    {<< >>}
    \cup {Mk({"is_order_intent"}, p) : p \in OrderPayloads}
    \cup {Mk({"is_search_intent"}, p) : p \in SearchPayloads}
    \cup {Mk({"is_delete_intent"}, p) : p \in TargetPayloads}
    \cup {Mk({"is_update_intent"}, p) : p \in TargetPayloads \cup UpdatePayloads}
    \cup {Mk({"is_add_part_intent"}, p) : p \in PartsPayloads}
    \cup {Mk(f, FullPayload) : f \in {g \in FlagSets : Cardinality(g) # 1}}

---------------------------------------------------------------------------
(* tools.py: the HTTP wrappers ProductionAgent calls.  A search wrapper    *)
(* answers [] when the request fails; a mutation wrapper hands back the    *)
(* response (None or a 500 when the request fails).                        *)

\* a request as observed: the operation, the order code or part id it
\* addresses, the fields it sends (the query of a search is not recorded)
Call(op, text, id, fields) == [op |-> op, text |-> text, id |-> id, fields |-> fields]

MutationOps == {"create_order", "create_parts", "delete_order", "delete_part",
                "update_order", "update_part"}

\* tools.search_orders
ToolSearchOrders(d, query, ok) == IF ok THEN ApiSearchOrders(d, query) ELSE {}

\* tools.search_parts
ToolSearchParts(d, query, ok) == IF ok THEN ApiSearchParts(d, query) ELSE {}

\* outcomes the environment decides within one turn: whether the first and
\* the second repository request go through, and the code random.choices draws
Envs == [ok1 : BOOLEAN, ok2 : BOOLEAN, code : Codes]

\* a confirmed operation issues one request
ConfirmEnvs == {e \in Envs : e.ok2}

\* a turn that creates no order draws no code
SearchEnvs == {e \in Envs : e.code = <<"A", "1">>}

---------------------------------------------------------------------------
(* ProductionAgent (agent.py).  A handler yields                           *)
(* [st, db, calls, response]: the agent state and the repository after it, *)
(* the repository requests it issued, and a tag for the text it returned   *)
(* ("EXCEPTION" when it raised instead of returning); found is << >>, or   *)
(* <<f>> with the candidates_orders and candidates_parts of the handler.   *)

Out(s, d, calls, response) ==
    [st |-> s, db |-> d, calls |-> calls, response |-> response, found |-> << >>]

\* the output of a handler that searched: candidates_orders and
\* candidates_parts as its searches filled them
Searched(out, found) ==
    [out EXCEPT !.found = <<[orders |-> found.orders, parts |-> found.parts]>>]

\* ProductionAgent.__init__ / _reset_state
ResetState ==
    [awaiting_confirmation |-> "None",
     current_data |-> << >>,
     pending_parts |-> << >>,
     current_op |-> << >>,
     candidate |-> << >>,
     partial_update |-> << >>]

YesKeywords == {<<"s", "i", "m">>, <<"s">>, <<"y", "e", "s">>, <<"o", "k">>,
                <<"p", "o", "d", "e">>, <<"c", "o", "n", "f", "i", "r", "m">>}
NoKeywords  == {<<"n", "ã", "o">>, <<"n", "a", "o">>, <<"n", "o">>,
                <<"c", "a", "n", "c", "e", "l">>}

IsYes(msg) == \E k \in YesKeywords : Contains(Lower(msg), k)
IsNo(msg)  == \E k \in NoKeywords : Contains(Lower(msg), k)

\* templates.format_order_confirmation raises on data = None and on a
\* preco_total that is present but not a number ({...:.2f})
OrderPromptRaises(data) == data = << >> \/ data[1].preco_total = "null"

\* templates.format_update_confirmation raises on changes = None (.items())
UpdatePromptRaises(fields) == fields = << >>

\* _finalize_create_order, after create_order answered res
OrderCreated(s, parts_payload, res, calls) ==
    IF res.status = 200
    THEN IF parts_payload # << >>
         THEN Out([s EXCEPT !.current_op = res.codigo_op,
                            !.pending_parts = parts_payload,
                            !.awaiting_confirmation = "parts",
                            !.current_data = << >>],
                  res.db, calls, "order_created_confirm_parts")
         ELSE Out([ResetState EXCEPT !.current_op = res.codigo_op,
                                     !.awaiting_confirmation = "post_order_parts"],
                  res.db, calls, "order_created_ask_parts")
    ELSE Out(s, res.db, calls, "create_order_error")

\* _finalize_create_order (data = None raises on data.items())
FinalizeCreateOrder(s, d, env) ==
    IF s.current_data = << >> THEN Out(s, d, << >>, "EXCEPTION")
    ELSE OrderCreated(s, s.current_data[1].pecas,
                      ApiCreateOrder(d, s.current_data[1], env.code, env.ok1),
                      <<Call("create_order", s.current_data[1].nome_cliente, 0, {})>>)

\* _finalize_create_parts, after create_parts answered res
PartsCreated(s, res, calls) ==
    IF res.status = 200
    THEN Out(ResetState, res.db, calls, "parts_created")
    ELSE Out(s, res.db, calls, "create_parts_error")

\* _finalize_create_parts
FinalizeCreateParts(s, d, env) ==
    IF s.current_op = << >> \/ s.pending_parts = << >>
    THEN Out(s, d, << >>, "parts_lost")
    ELSE PartsCreated(s, ApiCreateParts(d, s.current_op, s.pending_parts, env.ok1),
                      <<Call("create_parts", s.current_op, 0, {})>>)

\* _finalize_delete / _finalize_update, after the repository answered res:
\* the state is reset whatever the answer
MutationDone(res, calls, success, error) ==
    Out(ResetState, res.db, calls, IF res.status = 200 THEN success ELSE error)

\* _finalize_delete
FinalizeDelete(s, d, env) ==
    IF s.candidate = << >> THEN Out(s, d, << >>, "item_lost")
    ELSE IF s.candidate[1].type = "order"
    THEN MutationDone(ApiDeleteOrder(d, s.candidate[1].data.codigo_op, env.ok1),
                      <<Call("delete_order", s.candidate[1].data.codigo_op, 0, {})>>,
                      "delete_success", "delete_error")
    ELSE MutationDone(ApiDeletePart(d, s.candidate[1].data.id_peca, env.ok1),
                      <<Call("delete_part", << >>, s.candidate[1].data.id_peca, {})>>,
                      "delete_success", "delete_error")

\* the dict sent as the body of an update request ({} stands for null,
\* which the handler rejects)
Body(fields) == IF fields = << >> THEN {} ELSE fields[1]

\* variant of _finalize_update that addresses an order by the client's
\* name, a text the query matched, instead of its codigo_op
FinalizeUpdateByName(s, d, env) ==
    IF s.candidate = << >> THEN Out(s, d, << >>, "item_lost")
    ELSE IF s.candidate[1].type = "order"
    THEN MutationDone(ApiUpdateOrder(d, s.candidate[1].data.nome_cliente,
                                     Body(s.candidate[1].fields),
                                     env.ok1 /\ s.candidate[1].fields # << >>),
                      <<Call("update_order", s.candidate[1].data.nome_cliente, 0,
                             Body(s.candidate[1].fields))>>,
                      "update_success", "update_error")
    ELSE MutationDone(ApiUpdatePart(d, s.candidate[1].data.id_peca,
                                    Body(s.candidate[1].fields),
                                    env.ok1 /\ s.candidate[1].fields # << >>),
                      <<Call("update_part", << >>, s.candidate[1].data.id_peca,
                             Body(s.candidate[1].fields))>>,
                      "update_success", "update_error")

\* _finalize_update
FinalizeUpdate(s, d, env) ==
    IF s.candidate = << >> THEN Out(s, d, << >>, "item_lost")
    ELSE IF s.candidate[1].type = "order"
    THEN MutationDone(ApiUpdateOrder(d, s.candidate[1].data.codigo_op,
                                     Body(s.candidate[1].fields),
                                     env.ok1 /\ s.candidate[1].fields # << >>),
                      <<Call("update_order", s.candidate[1].data.codigo_op, 0,
                             Body(s.candidate[1].fields))>>,
                      "update_success", "update_error")
    ELSE MutationDone(ApiUpdatePart(d, s.candidate[1].data.id_peca,
                                    Body(s.candidate[1].fields),
                                    env.ok1 /\ s.candidate[1].fields # << >>),
                      <<Call("update_part", << >>, s.candidate[1].data.id_peca,
                             Body(s.candidate[1].fields))>>,
                      "update_success", "update_error")

\* _handle_confirmation, "Process Confirmation"
Confirmed(s, d, confirm_type, env) ==
    CASE confirm_type = "order"  -> FinalizeCreateOrder(s, d, env)
      [] confirm_type = "parts"  -> FinalizeCreateParts(s, d, env)
      [] confirm_type = "delete" -> FinalizeDelete(s, d, env)
      [] confirm_type = "update" -> FinalizeUpdate(s, d, env)
      [] confirm_type = "post_order_parts" ->
            Out([s EXCEPT !.awaiting_confirmation = "None"], d, << >>, "ask_parts_list")
      [] OTHER -> Out(s, d, << >>, "state_error")

\* variant of _handle_confirmation that looks for the affirmative keyword first
HandleConfirmationYesFirst(s, d, user_message, env) ==
    IF IsYes(user_message) THEN Confirmed(s, d, s.awaiting_confirmation, env)
    ELSE IF IsNo(user_message) THEN Out(ResetState, d, << >>, "cancelled")
    ELSE Out(s, d, << >>, "reprompt")

\* _handle_confirmation
HandleConfirmation(s, d, user_message, env) ==
    IF IsNo(user_message) THEN Out(ResetState, d, << >>, "cancelled")
    ELSE IF ~IsYes(user_message) THEN Out(s, d, << >>, "reprompt")
    ELSE Confirmed(s, d, s.awaiting_confirmation, env)

\* variant of _handle_order_intent that asks for the confirmation whatever
\* is missing
HandleOrderIntentAlwaysConfirm(s, d, result) ==
    Out([s EXCEPT !.current_data = result.data,
                  !.awaiting_confirmation = "order"],
        d, << >>,
        IF OrderPromptRaises(result.data) THEN "EXCEPTION" ELSE "confirm_order")

\* _handle_order_intent: the state is written before the prompt is rendered
HandleOrderIntent(s, d, result) ==
    IF result.missing_fields = {}
    THEN Out([s EXCEPT !.current_data = result.data,
                       !.awaiting_confirmation = "order"],
             d, << >>,
             IF OrderPromptRaises(result.data) THEN "EXCEPTION" ELSE "confirm_order")
    ELSE Out([s EXCEPT !.current_data = result.data], d, << >>, "missing_data")

\* _handle_search_intent
HandleSearchIntent(s, d, result, env) ==
    Out(s, d,
        <<Call("search_orders", << >>, 0, {}), Call("search_parts", << >>, 0, {})>>,
        IF /\ ToolSearchOrders(d, result.search_query, env.ok1) = {}
           /\ ToolSearchParts(d, result.search_query, env.ok2) = {}
        THEN "not_found" ELSE "search_results")

\* the two conditional searches of _handle_delete_intent and _handle_update_intent
CandidateSearch(d, target, query, env) ==
    [orders |-> IF target \in {"order", "any"}
                THEN ToolSearchOrders(d, query, env.ok1) ELSE {},
     parts  |-> IF target \in {"part", "any"}
                THEN ToolSearchParts(d, query, env.ok2) ELSE {},
     calls  |-> (IF target \in {"order", "any"}
                 THEN <<Call("search_orders", << >>, 0, {})>> ELSE << >>)
                \o (IF target \in {"part", "any"}
                    THEN <<Call("search_parts", << >>, 0, {})>> ELSE << >>)]

\* total = len(candidates_orders) + len(candidates_parts)
Total(found) == Cardinality(found.orders) + Cardinality(found.parts)

\* the candidate built from a search that found exactly one item
Candidate(found, fields) ==
    IF found.orders # {}
    THEN [type |-> "order", data |-> CHOOSE o \in found.orders : TRUE, fields |-> fields]
    ELSE [type |-> "part", data |-> CHOOSE p \in found.parts : TRUE, fields |-> fields]

\* variant of _handle_delete_intent that takes the first item found when
\* the searches found several
DeleteFoundFirst(s, d, found, total) ==
    IF total = 0 THEN Out(s, d, found.calls, "not_found")
    ELSE Out([s EXCEPT !.candidate = <<Candidate(found, << >>)>>,
                       !.awaiting_confirmation = "delete"],
             d, found.calls, "confirm_delete")

\* _handle_delete_intent, after the searches
DeleteFound(s, d, found, total) ==
    IF total = 0 THEN Out(s, d, found.calls, "not_found")
    ELSE IF total = 1
    THEN Out([s EXCEPT !.candidate = <<Candidate(found, << >>)>>,
                       !.awaiting_confirmation = "delete"],
             d, found.calls, "confirm_delete")
    ELSE Out(s, d, found.calls, "multiple_found")

\* _handle_delete_intent
HandleDeleteIntent(s, d, result, env) ==
    Searched(DeleteFound(s, d,
                CandidateSearch(d, result.delete_target, result.delete_query, env),
                Total(CandidateSearch(d, result.delete_target, result.delete_query, env))),
             CandidateSearch(d, result.delete_target, result.delete_query, env))

\* _handle_update_intent, after the searches: the candidate is stored
\* before the prompt is rendered
UpdateFound(s, d, found, total, fields) ==
    IF total = 1
    THEN IF UpdatePromptRaises(fields)
         THEN Out([s EXCEPT !.candidate = <<Candidate(found, fields)>>],
                  d, found.calls, "EXCEPTION")
         ELSE Out([s EXCEPT !.candidate = <<Candidate(found, fields)>>,
                            !.awaiting_confirmation = "update"],
                  d, found.calls, "confirm_update")
    ELSE IF total = 0 THEN Out(s, d, found.calls, "not_found")
    ELSE Out(s, d, found.calls, "multiple_found")

\* _handle_update_intent
HandleUpdateIntent(s, d, result, env) ==
    IF result.missing_update_value # ""
    THEN Out([s EXCEPT !.partial_update =
                  <<[target |-> result.update_target,
                     query |-> result.update_query,
                     field |-> result.missing_update_value]>>],
             d, << >>, "ask_update_value")
    ELSE Searched(UpdateFound(s, d,
                     CandidateSearch(d, result.update_target, result.update_query, env),
                     Total(CandidateSearch(d, result.update_target, result.update_query, env)),
                     result.update_fields),
                  CandidateSearch(d, result.update_target, result.update_query, env))

\* variant of _handle_partial_update that keeps the pending request
HandlePartialUpdateKeep(s, d, value, env) ==
    HandleUpdateIntent(s, d,
                       [update_target |-> s.partial_update[1].target,
                        update_query |-> s.partial_update[1].query,
                        update_fields |-> <<{<<s.partial_update[1].field, value>>}>>,
                        missing_update_value |-> ""],
                       env)

\* variant of _handle_partial_update in which a message with a negative
\* keyword cancels the pending update
HandlePartialUpdateCancel(s, d, value, env) ==
    IF IsNo(value)
    THEN Out([s EXCEPT !.partial_update = << >>], d, << >>, "cancelled")
    ELSE HandleUpdateIntent([s EXCEPT !.partial_update = << >>], d,
                            [update_target |-> s.partial_update[1].target,
                             update_query |-> s.partial_update[1].query,
                             update_fields |-> <<{<<s.partial_update[1].field, value>>}>>,
                             missing_update_value |-> ""],
                            env)

\* _handle_partial_update: the message is the value of the pending field
HandlePartialUpdate(s, d, value, env) ==
    HandleUpdateIntent([s EXCEPT !.partial_update = << >>], d,
                       [update_target |-> s.partial_update[1].target,
                        update_query |-> s.partial_update[1].query,
                        update_fields |-> <<{<<s.partial_update[1].field, value>>}>>,
                        missing_update_value |-> ""],
                       env)

\* _handle_add_part_intent, once nothing is missing
AddParts(s, d, client_name, parts) ==
    IF s.current_op = << >> /\ client_name = << >>
    THEN Out(s, d, << >>, "ask_which_order")
    ELSE IF parts # << >>
    THEN Out([s EXCEPT !.pending_parts = parts,
                       !.current_data =
                           IF client_name # << >>
                           THEN <<DataDict(client_name, << >>, "absent", << >>)>>
                           ELSE @,
                       !.awaiting_confirmation = "parts"],
             d, << >>, "confirm_parts")
    ELSE Out(s, d, << >>, "parts_not_identified")

\* _handle_add_part_intent (data = None raises on data.get)
HandleAddPartIntent(s, d, result) ==
    IF result.missing_fields # {} THEN Out(s, d, << >>, "missing_data")
    ELSE IF result.data = << >> THEN Out(s, d, << >>, "EXCEPTION")
    ELSE AddParts(s, d, result.data[1].nome_cliente, result.parts_data)

\* the chain in the order Delete > Update > Order-creation > Add-parts > Search
ListedPriority == <<"is_delete_intent", "is_update_intent", "is_order_intent",
                    "is_add_part_intent", "is_search_intent">>

\* the order of the if/elif chain of process_input
AgentPriority == <<"is_order_intent", "is_search_intent", "is_delete_intent",
                   "is_update_intent", "is_add_part_intent">>

\* the first flag of the chain that the result sets, "none" when it sets none
FirstIntent(chain, result) ==
    IF \E i \in 1..Len(chain) : result[chain[i]]
    THEN chain[CHOOSE i \in 1..Len(chain) :
                  /\ result[chain[i]]
                  /\ \A j \in 1..(i - 1) : ~result[chain[j]]]
    ELSE "none"

\* the branch of process_input's chain for an intent
Handle(intent, s, d, result, env) ==
    [branch |-> intent,
     out |-> CASE intent = "is_order_intent"    -> HandleOrderIntent(s, d, result)
               [] intent = "is_search_intent"   -> HandleSearchIntent(s, d, result, env)
               [] intent = "is_delete_intent"   -> HandleDeleteIntent(s, d, result, env)
               [] intent = "is_update_intent"   -> HandleUpdateIntent(s, d, result, env)
               [] intent = "is_add_part_intent" -> HandleAddPartIntent(s, d, result)
               [] OTHER -> Out(s, d, << >>, "chat")]

\* process_input, step 4: dispatch on the extraction result
Dispatch(s, d, result, env) ==
    Handle(FirstIntent(AgentPriority, result), s, d, result, env)

Extracted(r) == [branch |-> r.branch, extracted |-> TRUE, out |-> r.out]

\* variant of process_input that interprets the message before it looks at
\* the pending update
ProcessInputExtractFirst(s, d, user_message, attached_file, extraction, env) ==
    IF attached_file
    THEN [branch |-> "attached", extracted |-> FALSE,
          out |-> Out(s, d, << >>, "pdf_disabled")]
    ELSE IF s.awaiting_confirmation # "None"
    THEN [branch |-> "confirmation", extracted |-> FALSE,
          out |-> HandleConfirmation(s, d, user_message, env)]
    ELSE IF extraction = << >>
    THEN [branch |-> "none", extracted |-> TRUE,
          out |-> Out(s, d, << >>, "not_understood")]
    ELSE Extracted(Dispatch(s, d, extraction[1], env))

\* process_input: [branch, extracted, out]; extracted is whether
\* extract_data_from_message was called
ProcessInput(s, d, user_message, attached_file, extraction, env) ==
    IF attached_file
    THEN [branch |-> "attached", extracted |-> FALSE,
          out |-> Out(s, d, << >>, "pdf_disabled")]
    ELSE IF s.awaiting_confirmation # "None"
    THEN [branch |-> "confirmation", extracted |-> FALSE,
          out |-> HandleConfirmation(s, d, user_message, env)]
    ELSE IF s.partial_update # << >>
    THEN [branch |-> "partial_update", extracted |-> FALSE,
          out |-> HandlePartialUpdate(s, d, user_message, env)]
    ELSE IF extraction = << >>
    THEN [branch |-> "none", extracted |-> TRUE,
          out |-> Out(s, d, << >>, "not_understood")]
    ELSE Extracted(Dispatch(s, d, extraction[1], env))

FlagsOf(extraction) ==
    IF extraction = << >> THEN {}
    ELSE {f \in IntentFlags : extraction[1][f]}

\* the responses that ask the user to confirm an operation
ConfirmationPrompts == {"confirm_order", "confirm_parts", "confirm_delete",
                        "confirm_update", "order_created_confirm_parts",
                        "order_created_ask_parts"}

\* whether a message holds an affirmative and a negative keyword
Class(user_message) == {[yes |-> IsYes(user_message), no |-> IsNo(user_message)]}

\* the outcomes to try for an extraction result: the handlers of the order
\* and parts intents issue no repository request
EnvsFor(extraction) ==
    IF FlagsOf(extraction) \cap {"is_search_intent", "is_delete_intent", "is_update_intent"} = {}
    THEN {CHOOSE e \in SearchEnvs : e.ok1 /\ e.ok2}
    ELSE SearchEnvs

\* one call of process_input, observed in `turn`: the state it started in,
\* what the message held, whether the extractor ran and the flags it set,
\* the branch taken, the requests issued and the response; asked is whether
\* the turn that entered the current awaiting state returned a confirmation
\* prompt; order is the data and the missing_fields _handle_order_intent
\* read (<< >> when it did not run), found what a delete or update search
\* found (<< >> when none ran)
Observed(r, class, attached_file, extraction) ==
       /\ st' = r.out.st
       /\ turn' = [start_awaiting |-> st.awaiting_confirmation,
                   start_partial |-> st.partial_update # << >>,
                   attached |-> attached_file,
                   yes |-> class.yes,
                   no |-> class.no,
                   extracted |-> r.extracted,
                   flags |-> IF r.extracted THEN FlagsOf(extraction) ELSE {},
                   branch |-> r.branch,
                   calls |-> r.out.calls,
                   response |-> r.out.response,
                   order |-> IF r.branch = "is_order_intent"
                             THEN <<[data |-> extraction[1].data,
                                     missing |-> extraction[1].missing_fields]>>
                             ELSE << >>,
                   found |-> r.out.found,
                   start_asked |-> turn.asked,
                   asked |-> IF r.out.st.awaiting_confirmation = st.awaiting_confirmation
                             THEN turn.asked
                             ELSE r.out.response \in ConfirmationPrompts]

\* a message to ProductionAgent
AgentTurn(user_message, class, attached_file, extraction, env) ==
    \E r \in {ProcessInput(st, db, user_message, attached_file, extraction, env)} :
       /\ UNCHANGED <<sessions, chat, reqs>>
       /\ db' = r.out.db
       /\ Observed(r, class, attached_file, extraction)

\* a message with a file attached
TurnAttached ==
    \E m \in {T_sim, T_talvez} : \E class \in Class(m) :
        AgentTurn(m, class, TRUE, << >>, CHOOSE e \in Envs : TRUE)

\* a message while a confirmation is pending
TurnConfirmation ==
    /\ st.awaiting_confirmation # "None"
    /\ \E m \in Messages : \E class \in Class(m) : \E env \in ConfirmEnvs :
            AgentTurn(m, class, FALSE, << >>, env)

\* the messages tried as the value of an update: one holds an affirmative
\* keyword, the other a negative one
ValueMessages == {T_ok, T_nao}

\* a message while the value of an update is awaited
TurnPartialUpdate ==
    /\ st.awaiting_confirmation = "None"
    /\ st.partial_update # << >>
    /\ \E m \in ValueMessages : \E class \in Class(m) : \E env \in SearchEnvs :
            AgentTurn(m, class, FALSE, << >>, env)

\* a message in the idle state: the extractor decides what it means
TurnIntent ==
    /\ st.awaiting_confirmation = "None"
    /\ st.partial_update = << >>
    /\ \E m \in {T_sim} : \E class \in Class(m) :
        \E x \in Extractions : \E env \in EnvsFor(x) :
            AgentTurn(m, class, FALSE, x, env)

InitTurn ==
    [start_awaiting |-> "None", start_partial |-> FALSE, attached |-> FALSE,
     yes |-> FALSE, no |-> FALSE, extracted |-> FALSE, flags |-> {},
     branch |-> "init", calls |-> << >>, response |-> "init",
     order |-> << >>, found |-> << >>,
     start_asked |-> FALSE, asked |-> FALSE]

---------------------------------------------------------------------------
(* chat_endpoint (api.py): the state of a conversation is the `state`      *)
(* column of the phone's row in chat_sessions, a dict that starts empty.   *)
(* It is the record below; a key the dict lacks holds FALSE or << >>.      *)
(* chat_endpoint works on the tables directly.                             *)

\* the phone numbers that write to the service
Phones == {"p1"}

\* state = {} (no row yet, or a request without phone_number)
EmptyState ==
    [partial_data |-> << >>,
     awaiting_create_confirmation |-> FALSE,
     awaiting_delete_confirmation |-> FALSE,
     awaiting_update_confirmation |-> FALSE,
     delete_candidate |-> << >>,
     delete_candidates |-> << >>,
     update_candidate |-> << >>,
     active_order_op |-> << >>,
     last_search_results |-> << >>,
     last_active_item |-> << >>]

\* {**state, **new_context}: new_context is a function from the keys it
\* holds to their values; << >> is the empty dict {}
Merge(state, new_context) ==
    [k \in DOMAIN state |->
        IF k \in DOMAIN new_context THEN new_context[k] ELSE state[k]]

\* str.strip()
RECURSIVE Strip(_)
Strip(s) ==
    IF s = << >> THEN s
    ELSE IF Head(s) = " " THEN Strip(Tail(s))
    ELSE IF s[Len(s)] = " " THEN Strip(SubSeq(s, 1, Len(s) - 1))
    ELSE s

\* query.replace(" e ", ",").replace(" and ", ",")
RECURSIVE ReplaceAnd(_)
ReplaceAnd(s) ==
    IF s = << >> THEN s
    ELSE IF Len(s) >= 3 /\ SubSeq(s, 1, 3) = <<" ", "e", " ">>
    THEN <<",">> \o ReplaceAnd(SubSeq(s, 4, Len(s)))
    ELSE IF Len(s) >= 5 /\ SubSeq(s, 1, 5) = <<" ", "a", "n", "d", " ">>
    THEN <<",">> \o ReplaceAnd(SubSeq(s, 6, Len(s)))
    ELSE <<Head(s)>> \o ReplaceAnd(Tail(s))

\* str.split(","), the piece being read in `cur`
RECURSIVE SplitComma(_, _)
SplitComma(s, cur) ==
    IF s = << >> THEN <<cur>>
    ELSE IF Head(s) = "," THEN <<cur>> \o SplitComma(Tail(s), << >>)
    ELSE SplitComma(Tail(s), Append(cur, Head(s)))

\* [q.strip() for q in clean_query.split(",") if q.strip()], as the set of
\* the terms
QueryParts(query) ==
    LET pieces == SplitComma(ReplaceAnd(query), << >>) IN
    {Strip(pieces[i]) : i \in DOMAIN pieces} \ {<< >>}

\* column.ilike.value without wildcards: equality up to case
ILikeExact(column, value) == Lower(column) = Lower(value)

\* the search of the search intent (api.py:380-381)
ChatSearchOrders(d, safe_query) ==
    {o \in d.ordem_pedido :
        \/ ILike(o.nome_cliente, safe_query)
        \/ ILike(o.codigo_op, safe_query)
        \/ ILike(o.status, safe_query)}

ChatSearchParts(d, safe_query) ==
    {p \in d.pecas :
        \/ ILike(p.nome_peca, safe_query)
        \/ ILike(p.nome_cliente, safe_query)
        \/ ILike(p.codigo_op, safe_query)
        \/ ILike(p.status, safe_query)}

\* the search of the delete intent: several terms are order codes, one term
\* is an order code or a part of a client's name; parts go by name (no term
\* of the model is a UUID)
DeleteSearchOrders(d, target, query_parts) ==
    IF target \notin {"order", "any"} THEN {}
    ELSE IF Cardinality(query_parts) > 1
    THEN {o \in d.ordem_pedido : \E q \in query_parts : ILikeExact(o.codigo_op, q)}
    ELSE {o \in d.ordem_pedido :
            \E q \in query_parts : ILikeExact(o.codigo_op, q) \/ ILike(o.nome_cliente, q)}

DeleteSearchParts(d, target, query_parts) ==
    IF target \notin {"part", "any"} THEN {}
    ELSE {p \in d.pecas : \E t \in query_parts : ILike(p.nome_peca, t)}

\* A branch of chat_endpoint yields [db, ops, response, new_context, found]:
\* the tables after it, the table mutations it executed, a tag for the text
\* of its ChatResponse and the new_context of it (<< >> is None, <<c>> a
\* dict); the response "EXCEPTION" is a branch that raised: the outer except
\* then answers the error text and nothing is saved.  found is << >>, or
\* <<f>> with the lists orders and parts of a delete or update search.
ChatOut(d, ops, response, new_context) ==
    [db |-> d, ops |-> ops, response |-> response, new_context |-> new_context,
     found |-> << >>]

\* the output of a branch whose search left `orders` and `parts`
ChatSearched(orders, parts, out) ==
    [out EXCEPT !.found = <<[orders |-> orders, parts |-> parts]>>]

Raised(d, ops) == ChatOut(d, ops, "EXCEPTION", << >>)

\* new_context = {}
EmptyContext == << << >> >>

\* a table mutation as observed
Op(op, table, key) == [op |-> op, table |-> table, key |-> key]

\* msg, gen_tokens = generate_agent_response(...), and likewise for
\* get_chat_response: both return one str (tools.py:198-240, 359-393), so
\* the unpacking, or the sum total_tokens_used += gen_tokens, raises
GeneratedReply(d, ops) == Raised(d, ops)

\* what the environment decides within one request: which table call of the
\* branch raises (0: none), whether the session is read and written, the
\* code random.choices draws
MaxFail == 2

ChatEnvs == [fail : 0..MaxFail, load_ok : BOOLEAN, save_ok : BOOLEAN, code : Codes]

\* the search intent, once both selects answered
SearchFound(d, orders, parts) ==
    IF orders = {} /\ parts = {} THEN GeneratedReply(d, << >>)
    ELSE ChatOut(d, << >>, "search_results",
                 <<("last_search_results" :> <<[orders |-> orders, parts |-> parts]>>)
                   @@ (IF Cardinality(orders) = 1 /\ parts = {}
                       THEN "last_active_item" :>
                                <<[type |-> "order", data |-> CHOOSE o \in orders : TRUE]>>
                       ELSE IF Cardinality(parts) = 1 /\ orders = {}
                       THEN "last_active_item" :>
                                <<[type |-> "part", data |-> CHOOSE q \in parts : TRUE]>>
                       ELSE << >>)>>)

\* the search intent (api.py:375-405)
ChatSearchIntent(d, extraction, env) ==
    IF extraction.search_query = << >> THEN ChatOut(d, << >>, "ask_query", << >>)
    ELSE IF env.fail > 0 THEN Raised(d, << >>)
    ELSE SearchFound(d, ChatSearchOrders(d, Strip(extraction.search_query)),
                     ChatSearchParts(d, Strip(extraction.search_query)))

\* the rows of a result in the order the table hands them back (by id)
RECURSIVE OrdersList(_)
OrdersList(orders) ==
    IF orders = {} THEN << >>
    ELSE LET o == CHOOSE x \in orders : \A y \in orders : x.id <= y.id
         IN <<o>> \o OrdersList(orders \ {o})

RECURSIVE PartsList(_)
PartsList(parts) ==
    IF parts = {} THEN << >>
    ELSE LET q == CHOOSE x \in parts : \A y \in parts : x.id_peca <= y.id_peca
         IN <<q>> \o PartsList(parts \ {q})

\* the deletion loop over the candidates (api.py:420-439).  An order goes in
\* two steps that change the tables, its parts and then its row (the calls
\* on historico_status and alerta_atraso come before them); a part goes in
\* one.  fail counts the steps down to the one that raises.
RECURSIVE DeleteAll(_, _, _, _)
DeleteAll(d, candidates, fail, ops) ==
    IF candidates = << >> THEN [db |-> d, ops |-> ops, raised |-> FALSE]
    ELSE IF fail = 1 THEN [db |-> d, ops |-> ops, raised |-> TRUE]
    ELSE IF Head(candidates).type = "order"
    THEN LET code == Head(candidates).data.codigo_op
             d1 == [d EXCEPT !.pecas = {q \in @ : q.codigo_op # code}]
             ops1 == Append(ops, Op("delete", "pecas", code))
         IN IF fail = 2 THEN [db |-> d1, ops |-> ops1, raised |-> TRUE]
            ELSE DeleteAll([d1 EXCEPT !.ordem_pedido = {o \in @ : o.codigo_op # code}],
                           Tail(candidates),
                           IF fail > 2 THEN fail - 2 ELSE 0,
                           Append(ops1, Op("delete", "ordem_pedido", code)))
    ELSE DeleteAll([d EXCEPT !.pecas = {q \in @ : q.id_peca # Head(candidates).data.id_peca}],
                   Tail(candidates),
                   IF fail > 1 THEN fail - 1 ELSE 0,
                   Append(ops, Op("delete", "pecas", Head(candidates).data.id_peca)))

Deleted(res) ==
    IF res.raised THEN Raised(res.db, res.ops)
    ELSE ChatOut(res.db, res.ops, "delete_success", EmptyContext)

\* the words chat_endpoint takes for a confirmation
ChatYesKeywords == {<<"s", "i", "m">>, <<"s">>, <<"y", "e", "s">>,
                    <<"c", "o", "n", "f", "i", "r", "m">>}
ChatNoKeywords  == {<<"n", "ã", "o">>, <<"n", "a", "o">>,
                    <<"c", "a", "n", "c", "e", "l">>}

ChatYes(message) == \E k \in ChatYesKeywords : Contains(Lower(message), k)
ChatNo(message)  == \E k \in ChatNoKeywords : Contains(Lower(message), k)

\* the delete intent while awaiting_delete_confirmation (api.py:412-450)
ChatDeleteConfirm(state, d, yes, env) ==
    IF yes
    THEN Deleted(DeleteAll(d,
                           IF state.delete_candidates # << >> THEN state.delete_candidates
                           ELSE state.delete_candidate,
                           env.fail, << >>))
    ELSE GeneratedReply(d, << >>)

\* variant of the delete intent that refuses several parts as it refuses
\* an order together with a part
ChatDeleteFoundNoPartsBatch(d, orders, parts) ==
    ChatSearched(orders, parts,
    IF Cardinality(orders) + Cardinality(parts) = 1
    THEN ChatOut(d, << >>, "confirm_delete",
                 <<("awaiting_delete_confirmation" :> TRUE)
                   @@ ("delete_candidate" :>
                         <<IF orders # {}
                           THEN [type |-> "order", data |-> CHOOSE o \in orders : TRUE]
                           ELSE [type |-> "part", data |-> CHOOSE q \in parts : TRUE]>>)>>)
    ELSE IF orders = {} /\ parts = {} THEN GeneratedReply(d, << >>)
    ELSE IF parts = {}
    THEN ChatOut(d, << >>, "confirm_delete_batch",
                 <<("awaiting_delete_confirmation" :> TRUE)
                   @@ ("delete_candidates" :>
                         [i \in DOMAIN OrdersList(orders) |->
                             [type |-> "order", data |-> OrdersList(orders)[i]]])>>)
    ELSE GeneratedReply(d, << >>))

\* the delete intent, once the searches answered (api.py:504-537)
ChatDeleteFound(d, orders, parts) ==
    ChatSearched(orders, parts,
    IF Cardinality(orders) + Cardinality(parts) = 1
    THEN ChatOut(d, << >>, "confirm_delete",
                 <<("awaiting_delete_confirmation" :> TRUE)
                   @@ ("delete_candidate" :>
                         <<IF orders # {}
                           THEN [type |-> "order", data |-> CHOOSE o \in orders : TRUE]
                           ELSE [type |-> "part", data |-> CHOOSE q \in parts : TRUE]>>)>>)
    ELSE IF orders = {} /\ parts = {} THEN GeneratedReply(d, << >>)
    ELSE IF parts = {}
    THEN ChatOut(d, << >>, "confirm_delete_batch",
                 <<("awaiting_delete_confirmation" :> TRUE)
                   @@ ("delete_candidates" :>
                         [i \in DOMAIN OrdersList(orders) |->
                             [type |-> "order", data |-> OrdersList(orders)[i]]])>>)
    ELSE IF orders = {}
    THEN ChatOut(d, << >>, "confirm_delete_batch",
                 <<("awaiting_delete_confirmation" :> TRUE)
                   @@ ("delete_candidates" :>
                         [i \in DOMAIN PartsList(parts) |->
                             [type |-> "part", data |-> PartsList(parts)[i]]])>>)
    ELSE GeneratedReply(d, << >>))

\* the delete intent (api.py:408-537); delete_query = None raises on
\* query.replace
ChatDeleteIntent(state, d, extraction, yes, env) ==
    IF state.awaiting_delete_confirmation THEN ChatDeleteConfirm(state, d, yes, env)
    ELSE IF extraction.delete_query = << >> \/ env.fail > 0 THEN Raised(d, << >>)
    ELSE ChatDeleteFound(d,
            DeleteSearchOrders(d, extraction.delete_target, QueryParts(extraction.delete_query)),
            DeleteSearchParts(d, extraction.delete_target, QueryParts(extraction.delete_query)))

\* the insert of a confirmed order (api.py:547-568): the row is built from
\* the data of this turn's extraction (data = None raises on data.items())
ChatCreateOrder(d, data, env) ==
    IF data = << >> \/ env.fail > 0 \/ d.n_orders >= MaxOrders THEN Raised(d, << >>)
    ELSE ChatOut([d EXCEPT !.ordem_pedido = @ \cup
                        {[id |-> d.n_orders + 1,
                          codigo_op |-> env.code,
                          nome_cliente |-> data[1].nome_cliente,
                          status |-> StatusOrder]},
                      !.n_orders = @ + 1],
                 <<Op("insert", "ordem_pedido", env.code)>>,
                 "order_created_ask_parts",
                 <<("active_order_op" :> env.code) @@ ("partial_data" :> << >>)>>)

\* the order intent when nothing was answered yet (api.py:576-588)
ChatOrderPrompt(d, extraction) ==
    IF extraction.missing_fields = {}
    THEN IF OrderPromptRaises(extraction.data) THEN Raised(d, << >>)
         ELSE ChatOut(d, << >>, "confirm_order",
                      <<("awaiting_create_confirmation" :> TRUE)
                        @@ ("partial_data" :> extraction.data)>>)
    ELSE IF extraction.missing_message # << >>
    THEN ChatOut(d, << >>, "missing_data", <<"partial_data" :> extraction.data>>)
    ELSE GeneratedReply(d, << >>)

\* the order intent (api.py:540-588): a message that is neither a yes nor a
\* no falls through to the prompt
ChatOrderIntent(state, d, extraction, yes, no, env) ==
    IF state.awaiting_create_confirmation /\ extraction.missing_fields = {} /\ yes
    THEN ChatCreateOrder(d, extraction.data, env)
    ELSE IF state.awaiting_create_confirmation /\ extraction.missing_fields = {} /\ no
    THEN GeneratedReply(d, << >>)
    ELSE ChatOrderPrompt(d, extraction)

\* the insert of the add-parts intent (api.py:612-635)
ChatInsertParts(d, active_op, parts_data, found, env) ==
    IF env.fail = 1 THEN Raised(d, << >>)
    ELSE IF found = {} THEN GeneratedReply(d, << >>)
    ELSE IF env.fail = 2 \/ d.n_parts + Len(parts_data) > MaxParts THEN Raised(d, << >>)
    ELSE ChatOut([d EXCEPT !.pecas = @ \cup
                        PartRows(parts_data, active_op, CHOOSE o \in found : TRUE, d.n_parts),
                      !.n_parts = @ + Len(parts_data)],
                 <<Op("insert", "pecas", active_op)>>,
                 "parts_created",
                 <<"active_order_op" :> active_op>>)

\* the add-parts intent, the order code settled (api.py:599-639)
ChatAddParts(d, active_op, extraction, env) ==
    IF active_op = << >> THEN GeneratedReply(d, << >>)
    ELSE IF extraction.parts_data = << >>
    THEN IF extraction.missing_fields # {}
         THEN ChatOut(d, << >>, "missing_data", << >>)
         ELSE GeneratedReply(d, << >>)
    ELSE ChatInsertParts(d, active_op, extraction.parts_data,
                         {o \in d.ordem_pedido : o.codigo_op = active_op}, env)

\* the add-parts intent (api.py:590-639)
ChatAddPartIntent(state, d, extraction, env) ==
    ChatAddParts(d,
                 IF extraction.target_op # << >> THEN extraction.target_op
                 ELSE state.active_order_op,
                 extraction, env)

\* the update intent while awaiting_update_confirmation (api.py:648-665);
\* update(None) raises
ChatUpdateConfirm(state, d, yes, env) ==
    IF ~yes THEN GeneratedReply(d, << >>)
    ELSE IF state.update_candidate = << >> THEN ChatOut(d, << >>, "update_lost", << >>)
    ELSE IF env.fail > 0 \/ state.update_candidate[1].fields = << >> THEN Raised(d, << >>)
    ELSE IF state.update_candidate[1].type = "order"
    THEN ChatOut([d EXCEPT !.ordem_pedido =
                     {IF o.codigo_op = state.update_candidate[1].data.codigo_op
                      THEN RowUpdate(o, state.update_candidate[1].fields[1]) ELSE o : o \in @}],
                 <<Op("update", "ordem_pedido", state.update_candidate[1].data.codigo_op)>>,
                 "update_success", EmptyContext)
    ELSE ChatOut([d EXCEPT !.pecas =
                     {IF q.id_peca = state.update_candidate[1].data.id_peca
                      THEN RowUpdate(q, state.update_candidate[1].fields[1]) ELSE q : q \in @}],
                 <<Op("update", "pecas", state.update_candidate[1].data.id_peca)>>,
                 "update_success", EmptyContext)

\* normalize_text: accents off, lower case
NormChar(c) ==
    CASE c = "ã" -> "a"
      [] c = "ç" -> "c"
      [] OTHER -> LowerChar(c)

Normalize(text) == [i \in 1..Len(text) |-> NormChar(text[i])]

\* "Filter locally first": the rows of last_search_results the query fits
LocalOrders(last_results, target, query) ==
    IF last_results = << >> \/ target \notin {"order", "any"} THEN {}
    ELSE {o \in last_results[1].orders :
            \/ Contains(Normalize(o.nome_cliente), Normalize(query))
            \/ Contains(Normalize(o.codigo_op), Normalize(query))}

LocalParts(last_results, target, query) ==
    IF last_results = << >> \/ target \notin {"part", "any"} THEN {}
    ELSE {q \in last_results[1].parts :
            Contains(Normalize(q.nome_peca), Normalize(query))}

\* the selects of the update intent, op_filter narrowing them
UpdateSearchOrders(d, target, query, op_filter) ==
    IF target \notin {"order", "any"} THEN {}
    ELSE {o \in d.ordem_pedido :
            /\ ILikeExact(o.codigo_op, query) \/ ILike(o.nome_cliente, query)
            /\ op_filter # << >> => ILikeExact(o.codigo_op, op_filter)}

UpdateSearchParts(d, target, query, op_filter) ==
    IF target \notin {"part", "any"} THEN {}
    ELSE {q \in d.pecas :
            /\ ILike(q.nome_peca, query)
            /\ op_filter # << >> => ILikeExact(q.codigo_op, op_filter)}

\* the update intent, once the candidates are known (api.py:713-737);
\* format_update_confirmation raises on update_fields = None
ChatUpdateFound(d, orders, parts, fields) ==
    ChatSearched(orders, parts,
    IF Cardinality(orders) + Cardinality(parts) = 1
    THEN IF UpdatePromptRaises(fields) THEN Raised(d, << >>)
         ELSE ChatOut(d, << >>, "confirm_update",
                 <<("awaiting_update_confirmation" :> TRUE)
                   @@ ("update_candidate" :>
                         <<IF orders # {}
                           THEN [type |-> "order", data |-> CHOOSE o \in orders : TRUE,
                                 fields |-> fields]
                           ELSE [type |-> "part", data |-> CHOOSE q \in parts : TRUE,
                                 fields |-> fields]>>)>>)
    ELSE GeneratedReply(d, << >>))

\* the update intent with a query: the last search results first, the
\* tables when they hold nothing (api.py:680-711)
ChatUpdateQuery(d, target, query, op_filter, fields, orders, parts, env) ==
    IF orders # {} \/ parts # {} THEN ChatUpdateFound(d, orders, parts, fields)
    ELSE IF env.fail > 0 /\ target \in Targets THEN Raised(d, << >>)
    ELSE ChatUpdateFound(d, UpdateSearchOrders(d, target, query, op_filter),
                         UpdateSearchParts(d, target, query, op_filter), fields)

\* the update intent when no confirmation is awaited (api.py:666-737)
ChatUpdateSearch(state, d, target, query, op_filter, fields, env) ==
    IF query = << >> /\ state.last_active_item # << >>
    THEN ChatUpdateFound(d,
            IF state.last_active_item[1].type = "order"
            THEN {state.last_active_item[1].data} ELSE {},
            IF state.last_active_item[1].type = "order"
            THEN {} ELSE {state.last_active_item[1].data},
            fields)
    ELSE IF query # << >>
    THEN ChatUpdateQuery(d, target, query, op_filter, fields,
                         LocalOrders(state.last_search_results, target, query),
                         LocalParts(state.last_search_results, target, query), env)
    ELSE ChatUpdateFound(d, {}, {}, fields)

\* the update intent (api.py:642-737)
ChatUpdateIntent(state, d, extraction, yes, env) ==
    IF state.awaiting_update_confirmation THEN ChatUpdateConfirm(state, d, yes, env)
    ELSE ChatUpdateSearch(state, d,
                          IF extraction.update_target = "" THEN "any"
                          ELSE extraction.update_target,
                          extraction.update_query, extraction.codigo_op,
                          extraction.update_fields, env)

\* the order of the if/elif chain of chat_endpoint
ChatPriority == <<"is_search_intent", "is_delete_intent", "is_order_intent",
                  "is_add_part_intent", "is_update_intent">>

\* the branch of chat_endpoint's chain for an intent; with no flag set the
\* fallback calls get_chat_response
ChatHandle(intent, state, d, extraction, yes, no, env) ==
    [branch |-> intent,
     out |-> CASE intent = "is_search_intent"   -> ChatSearchIntent(d, extraction, env)
               [] intent = "is_delete_intent"   -> ChatDeleteIntent(state, d, extraction, yes, env)
               [] intent = "is_order_intent"    -> ChatOrderIntent(state, d, extraction, yes, no, env)
               [] intent = "is_add_part_intent" -> ChatAddPartIntent(state, d, extraction, env)
               [] intent = "is_update_intent"   -> ChatUpdateIntent(state, d, extraction, yes, env)
               [] OTHER -> GeneratedReply(d, << >>)]

\* what extract_data_from_message handed back, as chat_endpoint reads it:
\* "extraction, extraction_tokens = ..." raises unless the value unpacks
\* into two, the second a number.  tools.py returns json.loads of the
\* model's reply, or None: `paired` is whether that value is a two-element
\* array [extraction, number]; every other value raises at api.py:366-367.
ChatAnalyze(state, d, paired, extraction, yes, no, env) ==
    IF ~paired THEN [branch |-> "unpack", out |-> Raised(d, << >>)]
    ELSE IF extraction = << >>
    THEN [branch |-> "none", out |-> ChatOut(d, << >>, "internal_error", << >>)]
    ELSE ChatHandle(FirstIntent(ChatPriority, extraction[1]),
                    state, d, extraction[1], yes, no, env)

\* "1. Load Context": the state of the phone's row, {} when there is no
\* phone, no row, or the select raised
LoadState(rows, phone, env) ==
    IF phone # << >> /\ env.load_ok /\ rows[phone[1]] # << >>
    THEN rows[phone[1]][1].state
    ELSE EmptyState

\* "3. Update Session": the upsert of the merged state, skipped without a
\* phone, after an exception, and lost when the upsert raises
SaveState(rows, phone, state, out, env) ==
    IF phone # << >> /\ out.response # "EXCEPTION" /\ env.save_ok
    THEN [rows EXCEPT ![phone[1]] =
            <<[state |-> IF out.new_context = << >> THEN state
                         ELSE Merge(state, out.new_context[1])]>>]
    ELSE rows

\* an extraction result with the fields chat_endpoint alone reads
ChatMk(flags, p, target_op, codigo_op, missing_message) ==
    <<[Mk(flags, p)[1] EXCEPT !.target_op = target_op, !.codigo_op = codigo_op,
                              !.missing_message = missing_message]>>

\* the extraction results tried on chat_endpoint: None; orders complete,
\* incomplete with the question to ask, and without data; searches;
\* deletions by name, by code, of parts, by two codes; updates by code, of
\* the last item found, narrowed to an order, and without fields; parts for
\* the active order and for a named one; no flag and all flags
ChatExtractions ==
    {<< >>}
    \cup {Mk({"is_order_intent"},
             P(<<DataDict(<<"a", "n", "a">>, T_date, "num", << >>)>>, {}, "", << >>, << >>, "", << >>)),
          ChatMk({"is_order_intent"},
                 P(<<DataDict(<<"a", "n", "a">>, << >>, "absent", << >>)>>, {"data_entrega"},
                   "", << >>, << >>, "", << >>),
                 << >>, << >>, <<"?">>),
          Mk({"is_order_intent"}, P(<< >>, {}, "", << >>, << >>, "", << >>))}
    \cup {Mk({"is_search_intent"}, P(NoData, {}, "", q, << >>, "", << >>)) :
            q \in {<< >>, <<"a">>, <<"a", "1">>}}
    \cup {Mk({"is_delete_intent"}, P(NoData, {}, "any", <<"a", "1">>, << >>, "", << >>)),
          Mk({"is_delete_intent"}, P(NoData, {}, "order", <<"a">>, << >>, "", << >>)),
          Mk({"is_delete_intent"}, P(NoData, {}, "part", <<"a">>, << >>, "", << >>)),
          Mk({"is_delete_intent"},
             P(NoData, {}, "order", <<"A", "1", ",", "B", "2">>, << >>, "", << >>))}
    \cup {Mk({"is_update_intent"}, P(NoData, {}, "", <<"a", "1">>, SetPrice, "", << >>)),
          Mk({"is_update_intent"}, P(NoData, {}, "", << >>, SetPrice, "", << >>)),
          ChatMk({"is_update_intent"}, P(NoData, {}, "any", <<"a">>, SetPrice, "", << >>),
                 << >>, <<"B", "2">>, << >>),
          Mk({"is_update_intent"}, P(NoData, {}, "order", <<"a", "1">>, << >>, "", << >>))}
    \cup {Mk({"is_add_part_intent"}, P(NoData, {}, "", << >>, << >>, "", OnePart)),
          ChatMk({"is_add_part_intent"}, P(NoData, {}, "", << >>, << >>, "", OnePart),
                 <<"A", "1">>, << >>, << >>)}
    \cup {Mk({}, FullPayload), Mk(IntentFlags, FullPayload)}

\* the kind of operation a response asks the user to confirm
AskedBy(response) ==
    CASE response = "confirm_order" -> {"create"}
      [] response \in {"confirm_delete", "confirm_delete_batch"} -> {"delete"}
      [] response = "confirm_update" -> {"update"}
      [] response = "order_created_ask_parts" -> {"parts"}
      [] OTHER -> {}

\* the awaiting flags a session state holds
Awaiting(state) ==
    {k \in {"awaiting_create_confirmation", "awaiting_delete_confirmation",
            "awaiting_update_confirmation"} : state[k]}

\* one request to POST /chat, observed in `chat`: the phone, the awaiting
\* flags of the state it loaded, what the message held, whether the
\* extractor was called and the flags it set, the branch taken, the table
\* mutations executed, the response, whether the session row was written,
\* the confirmations asked in the phone's conversation before this request
\* (asked_before) and up to it (asked), and what a delete or update search
\* of the request found
ChatObserved(r, state, phone, message, paired, extraction, env) ==
       /\ chat.turns < MaxTurns
       /\ db' = r.out.db
       /\ sessions' = SaveState(sessions, phone, state, r.out, env)
       /\ chat' = [phone |-> phone,
                   start |-> Awaiting(state),
                   yes |-> ChatYes(message),
                   no |-> ChatNo(message),
                   found |-> r.out.found,
                   extracted |-> TRUE,     \* api.py:366, whatever the state
                   flags |-> IF paired THEN FlagsOf(extraction) ELSE {},
                   branch |-> r.branch,
                   ops |-> r.out.ops,
                   response |-> r.out.response,
                   saved |-> phone # << >> /\ r.out.response # "EXCEPTION" /\ env.save_ok,
                   asked_before |-> IF phone = << >> THEN {} ELSE chat.asked,
                   asked |-> IF phone = << >> THEN chat.asked
                             ELSE chat.asked \cup AskedBy(r.out.response),
                   turns |-> chat.turns + 1]

\* a request to POST /chat
ChatRequest(phone, message, paired, extraction, env) ==
    \E state \in {LoadState(sessions, phone, env)} :
    \E r \in {ChatAnalyze(state, db, paired, extraction,
                          ChatYes(message), ChatNo(message), env)} :
       /\ UNCHANGED <<st, turn, reqs>>
       /\ ChatObserved(r, state, phone, message, paired, extraction, env)

ChatMessages == {T_sim, T_nao, T_talvez}

AllOk(code) == [fail |-> 0, load_ok |-> TRUE, save_ok |-> TRUE, code |-> code]

\* the codes to try for an extraction result: only a confirmed order draws one
CodesFor(extraction) ==
    IF "is_order_intent" \in FlagsOf(extraction) THEN Codes ELSE {<<"A", "1">>}

\* the ways one call of a request fails
FailingEnvs ==
    {e \in ChatEnvs :
        /\ e.code = <<"A", "1">>
        /\ \/ e.fail > 0 /\ e.load_ok /\ e.save_ok
           \/ e.fail = 0 /\ e.load_ok # e.save_ok}

\* a message of a phone, every call going through
ChatTurn ==
    \E p \in Phones : \E m \in ChatMessages :
    \E x \in ChatExtractions : \E c \in CodesFor(x) :
        ChatRequest(<<p>>, m, TRUE, x, AllOk(c))

\* a message without phone_number: the state is {} whatever was said before
ChatTurnStateless ==
    \E m \in {T_sim} : \E x \in ChatExtractions :
        ChatRequest(<< >>, m, TRUE, x, AllOk(<<"A", "1">>))

\* a message of a phone while a call on the tables or on chat_sessions raises
ChatTurnFails ==
    \E p \in Phones : \E m \in {T_sim} : \E x \in ChatExtractions : \E env \in FailingEnvs :
        ChatRequest(<<p>>, m, TRUE, x, env)

\* a message that holds an affirmative and a negative keyword, received
\* while the phone's session awaits a confirmation
ChatTurnBothKeywords ==
    \E p \in Phones : \E x \in ChatExtractions :
        /\ Awaiting(LoadState(sessions, <<p>>, AllOk(<<"A", "1">>))) # {}
        /\ ChatRequest(<<p>>, T_simNao, TRUE, x, AllOk(<<"A", "1">>))

\* a message for which the extractor's value does not unpack into two
ChatTurnUnpaired ==
    \E p \in Phones : \E m \in {T_sim} : \E x \in {<< >>, Mk({"is_search_intent"}, FullPayload)} :
        ChatRequest(<<p>>, m, FALSE, x, AllOk(<<"A", "1">>))

InitChat ==
    [phone |-> << >>, start |-> {}, yes |-> FALSE, no |-> FALSE, found |-> << >>,
     extracted |-> FALSE, flags |-> {},
     branch |-> "init", ops |-> << >>, response |-> "init", saved |-> FALSE,
     asked_before |-> {}, asked |-> {}, turns |-> 0]

---------------------------------------------------------------------------
(* chat_endpoint step by step: the requests in flight *)

\* the requests the server handles at the same time
Workers == {1, 2}
\* requests the workers handle in one behaviour
MaxCalls == 3

\* history_objs[-20:]
HistoryLimit == 20

\* the local variables of a request: where it stands (pc), its
\* phone_number and message, state and history_objs as "1. Load Context"
\* left them, whether the select raised, the response and new_context of
\* the branch taken, whether the request ended in the outer except, and
\* whether its upsert went through
IdleRequest ==
    [pc |-> "idle", phone |-> << >>, message |-> << >>, load_raised |-> FALSE,
     state |-> EmptyState, history |-> << >>, response |-> "", new_context |-> << >>,
     raised |-> FALSE, saved |-> FALSE, calls |-> 0]

NoRequests == [w \in Workers |-> IdleRequest]

\* a request that has returned: its locals are gone, what is kept is what
\* was observed of it
Returned(req, response, raised, saved) ==
    [IdleRequest EXCEPT !.pc = "done", !.phone = req.phone, !.message = req.message,
                        !.load_raised = req.load_raised, !.response = response,
                        !.raised = raised, !.saved = saved, !.calls = req.calls]

\* the requests taken so far
RECURSIVE Taken(_, _)
Taken(rs, ws) ==
    IF ws = {} THEN 0
    ELSE LET w == CHOOSE v \in ws : TRUE IN rs[w].calls + Taken(rs, ws \ {w})

\* {"role": ..., "content": ...}
Entry(role, content) == [role |-> role, content |-> content]

\* session.get("history") or []: [] when there is no phone, no row, or the
\* select raised
LoadHistory(rows, phone, load_ok) ==
    IF phone # << >> /\ load_ok /\ rows[phone[1]] # << >>
    THEN rows[phone[1]][1].history
    ELSE << >>

\* s[-n:] when len(s) > n
LastEntries(s, n) == IF Len(s) > n THEN SubSeq(s, Len(s) - n + 1, Len(s)) ELSE s

\* the row "3. Update Session" upserts: the history the request read, the
\* user's message and the reply appended, cut to the last 20; the state
\* the request read merged with new_context
SessionRow(req) ==
    [state |-> IF req.new_context = << >> THEN req.state
               ELSE Merge(req.state, req.new_context[1]),
     history |-> LastEntries(req.history \o <<Entry("user", req.message),
                                                Entry("assistant", <<req.response>>)>>,
                             HistoryLimit)]

---------------------------------------------------------------------------
(* Specifications *)

Init ==
    /\ db = EmptyDb
    /\ st = ResetState
    /\ turn = InitTurn
    /\ sessions = [p \in Phones |-> << >>]
    /\ chat = InitChat
    /\ reqs = NoRequests

Next == TurnAttached \/ TurnConfirmation \/ TurnPartialUpdate \/ TurnIntent

Spec == Init /\ [][Next]_vars

\* the tables after one order was created (api.create_order, or a confirmed
\* order of either orchestrator)
SeedDb ==
    ApiCreateOrder(EmptyDb, DataDict(<<"a", "n", "a">>, T_date, "num", << >>),
                   <<"A", "1">>, TRUE).db

\* chat_endpoint starts on empty tables or on tables that hold an order
InitChatEndpoint ==
    /\ db \in {EmptyDb, SeedDb}
    /\ st = ResetState
    /\ turn = InitTurn
    /\ sessions = [p \in Phones |-> << >>]
    /\ chat = InitChat
    /\ reqs = NoRequests

\* chat_endpoint alone
NextChat ==
    \/ ChatTurn
    \/ ChatTurnStateless
    \/ ChatTurnFails
    \/ ChatTurnUnpaired
    \/ ChatTurnBothKeywords

SpecChat == InitChatEndpoint /\ [][NextChat]_vars

\* the extraction results that set no flag or more than one
SeveralFlags == {Mk(f, FullPayload) : f \in {g \in FlagSets : Cardinality(g) # 1}}

\* the same message and the same extraction result given to both
\* dispatchers, ProductionAgent being idle: process_input first, then
\* chat_endpoint for a phone
DispatchTurn ==
    /\ st.awaiting_confirmation = "None"
    /\ st.partial_update = << >>
    /\ \E m \in {T_sim, T_talvez} : \E class \in Class(m) : \E x \in SeveralFlags :
       \E r \in {ProcessInput(st, db, m, FALSE, x, CHOOSE e \in SearchEnvs : e.ok1 /\ e.ok2)} :
       \E state \in {LoadState(sessions, <<"p1">>, AllOk(<<"B", "2">>))} :
       \E c \in {ChatAnalyze(state, r.out.db, TRUE, x, ChatYes(m), ChatNo(m),
                              AllOk(<<"B", "2">>))} :
          /\ Observed(r, class, FALSE, x)
          /\ ChatObserved(c, state, <<"p1">>, m, TRUE, x, AllOk(<<"B", "2">>))
          /\ UNCHANGED reqs

\* the user turns down what ProductionAgent asked, which makes it idle again
TurnCancel ==
    /\ st.awaiting_confirmation # "None"
    /\ \E class \in Class(T_nao) :
          AgentTurn(T_nao, class, FALSE, << >>, CHOOSE e \in ConfirmEnvs : e.ok1)

\* both dispatchers on extraction results with several flags
NextDispatch == DispatchTurn \/ TurnCancel

SpecDispatch == InitChatEndpoint /\ [][NextDispatch]_vars

\* the tables after create_parts inserted n parts for an order they hold
Stocked(d, codigo_op, n) ==
    [d EXCEPT !.pecas = @ \cup
                  PartRows([i \in 1..n |-> OnePart[1]], codigo_op,
                           CHOOSE o \in d.ordem_pedido : o.codigo_op = codigo_op,
                           d.n_parts),
              !.n_parts = @ + n]

\* repository snapshots: an order with one part, an order with several
\* parts, two orders of one client the first of which has a part
Snapshots ==
    {Stocked(SeedDb, <<"A", "1">>, 1),
     Stocked(SeedDb, <<"A", "1">>, SnapshotParts),
     Stocked(ApiCreateOrder(SeedDb, DataDict(<<"a", "n", "a">>, T_date, "num", << >>),
                            <<"B", "2">>, TRUE).db,
             <<"A", "1">>, 1)}

\* both orchestrators start on a repository snapshot
InitTargets ==
    /\ db \in Snapshots
    /\ st = ResetState
    /\ turn = InitTurn
    /\ sessions = [p \in Phones |-> << >>]
    /\ chat = InitChat
    /\ reqs = NoRequests

\* delete and update requests as the extractor returns them: an order by
\* its code, by its client and by two codes, a part by its name, anything
\* by a text that orders and parts hold, by a part name and by a text
\* nothing holds; an update whose fields are null; an update that lacks
\* the value
TargetExtractions ==
    {Mk({f}, P(NoData, {}, tq[1], tq[2], SetPrice, "", << >>)) :
        f \in {"is_delete_intent", "is_update_intent"},
        tq \in {<<"order", <<"a", "1">>>>, <<"order", <<"a">>>>,
                <<"order", <<"A", "1", ",", "B", "2">>>>, <<"part", <<"a", "b">>>>,
                <<"any", <<"a">>>>, <<"any", <<"a", "b">>>>, <<"any", <<"z">>>>}}
    \cup {Mk({"is_update_intent"}, P(NoData, {}, "order", <<"a", "1">>, << >>, "", << >>)),
          Mk({"is_update_intent"},
             P(NoData, {}, "order", <<"a", "1">>, << >>, "preco_total", << >>))}

\* the same delete or update request given to both orchestrators,
\* ProductionAgent being idle: process_input first, then chat_endpoint
TargetTurn ==
    /\ st.awaiting_confirmation = "None"
    /\ st.partial_update = << >>
    /\ chat.turns < MaxRequests
    /\ \E class \in Class(T_talvez) : \E x \in TargetExtractions :
       \E r \in {ProcessInput(st, db, T_talvez, FALSE, x, CHOOSE e \in SearchEnvs : e.ok1 /\ e.ok2)} :
       \E state \in {LoadState(sessions, <<"p1">>, AllOk(<<"A", "1">>))} :
       \E c \in {ChatAnalyze(state, r.out.db, TRUE, x, ChatYes(T_talvez), ChatNo(T_talvez),
                              AllOk(<<"A", "1">>))} :
          /\ Observed(r, class, FALSE, x)
          /\ ChatObserved(c, state, <<"p1">>, T_talvez, TRUE, x, AllOk(<<"A", "1">>))
          /\ UNCHANGED reqs

\* the user answers ProductionAgent: yes or no to a confirmation, or the
\* value of an update
AgentReply ==
    /\ st.awaiting_confirmation # "None" \/ st.partial_update # << >>
    /\ \E m \in {T_sim, T_nao} : \E class \in Class(m) :
       \E env \in {e \in SearchEnvs : e.ok2} :
            AgentTurn(m, class, FALSE, << >>, env)

\* what the extractor may make of an answer: a deletion, an update, a search
ReplyExtractions ==
    {Mk({"is_delete_intent"}, P(NoData, {}, "any", <<"a">>, << >>, "", << >>)),
     Mk({"is_update_intent"}, P(NoData, {}, "any", <<"a", "1">>, SetPrice, "", << >>)),
     Mk({"is_search_intent"}, P(NoData, {}, "", <<"a", "1">>, << >>, "", << >>))}

\* the user answers chat_endpoint while the session awaits a confirmation;
\* every table call goes through, or the one after MaxFail raises
ChatReply ==
    /\ Awaiting(LoadState(sessions, <<"p1">>, AllOk(<<"A", "1">>))) # {}
    /\ \E m \in {T_sim, T_nao} : \E x \in ReplyExtractions :
       \E env \in {AllOk(<<"A", "1">>), [AllOk(<<"A", "1">>) EXCEPT !.fail = MaxFail + 1]} :
            ChatRequest(<<"p1">>, m, TRUE, x, env)

\* both orchestrators on delete and update requests over the snapshots
NextTargets == TargetTurn \/ AgentReply \/ ChatReply

SpecTargets == InitTargets /\ [][NextTargets]_vars

\* the phone numbers of the requests in flight
SessionPhones == {"p1", "p2"}

\* an entry written by an earlier conversation
OldEntry(i) ==
    Entry(IF i % 2 = 1 THEN "user" ELSE "assistant", [k \in 1..(i + 3) |-> "o"])

\* the session of p1 is new, or holds a history two entries short of the
\* limit
InitSessions ==
    /\ db = SeedDb
    /\ st = ResetState
    /\ turn = InitTurn
    /\ sessions \in {[p \in SessionPhones |-> << >>],
                     [p \in SessionPhones |->
                        IF p = "p1"
                        THEN <<[state |-> EmptyState,
                                history |-> [i \in 1..(HistoryLimit - 2) |-> OldEntry(i)]]>>
                        ELSE << >>]}
    /\ chat = InitChat
    /\ reqs = NoRequests

\* what the extractor makes of the messages of these requests: None, a
\* complete order, a deletion
SessionExtractions ==
    {<< >>,
     Mk({"is_order_intent"},
        P(<<DataDict(<<"a", "n", "a">>, T_date, "num", << >>)>>, {}, "", << >>, << >>, "", << >>)),
     Mk({"is_delete_intent"}, P(NoData, {}, "any", <<"a", "1">>, << >>, "", << >>))}

\* a chat_endpoint that reads the row of p1 for a request without
\* phone_number
RequestLoadDefaultPhone(w) ==
    /\ reqs[w].pc \in {"idle", "done"}
    /\ Taken(reqs, Workers) < MaxCalls
    /\ \E phone \in {<< >>} \cup {<<p>> : p \in SessionPhones} :
       \E load_ok \in {ok \in BOOLEAN : phone = << >> => ok} :
       \E from \in {IF phone = << >> THEN <<"p1">> ELSE phone} :
          reqs' = [reqs EXCEPT ![w] =
                     [pc |-> "loaded", phone |-> phone, message |-> T_sim,
                      load_raised |-> ~load_ok,
                      state |-> LoadState(sessions, from,
                                          [AllOk(<<"B", "2">>) EXCEPT !.load_ok = load_ok]),
                      history |-> LoadHistory(sessions, from, load_ok),
                      response |-> "", new_context |-> << >>,
                      raised |-> FALSE, saved |-> FALSE, calls |-> @.calls + 1]]
    /\ UNCHANGED <<db, st, turn, sessions, chat>>

\* "1. Load Context": a worker takes a request and reads the row of its
\* phone; a select that raises leaves state {} and history []
RequestLoad(w) ==
    /\ reqs[w].pc \in {"idle", "done"}
    /\ Taken(reqs, Workers) < MaxCalls
    /\ \E phone \in {<< >>} \cup {<<p>> : p \in SessionPhones} :
       \E load_ok \in {ok \in BOOLEAN : phone = << >> => ok} :
          reqs' = [reqs EXCEPT ![w] =
                     [pc |-> "loaded", phone |-> phone, message |-> T_sim,
                      load_raised |-> ~load_ok,
                      state |-> LoadState(sessions, phone,
                                          [AllOk(<<"B", "2">>) EXCEPT !.load_ok = load_ok]),
                      history |-> LoadHistory(sessions, phone, load_ok),
                      response |-> "", new_context |-> << >>,
                      raised |-> FALSE, saved |-> FALSE, calls |-> @.calls + 1]]
    /\ UNCHANGED <<db, st, turn, sessions, chat>>

\* a chat_endpoint that upserts the session row as soon as the branch has
\* its reply, whether or not the request then ends in the outer except
RequestAnalyzeSaving(w) ==
    /\ reqs[w].pc = "loaded"
    /\ \E x \in SessionExtractions : \E paired \in {ok \in BOOLEAN : x = << >> \/ ok} :
       \E fail \in 0..1 :
       \E r \in {ChatAnalyze(reqs[w].state, db, paired, x,
                              ChatYes(reqs[w].message), ChatNo(reqs[w].message),
                              [AllOk(<<"B", "2">>) EXCEPT !.fail = fail])} :
          /\ db' = r.out.db
          /\ reqs' = [reqs EXCEPT ![w] =
                        IF r.out.response = "EXCEPTION"
                        THEN Returned(@, r.out.response, TRUE, FALSE)
                        ELSE [@ EXCEPT !.pc = "analyzed",
                                       !.response = r.out.response,
                                       !.new_context = r.out.new_context]]
          /\ sessions' = IF reqs[w].phone = << >> THEN sessions
                          ELSE [sessions EXCEPT ![reqs[w].phone[1]] =
                                  <<SessionRow([reqs[w] EXCEPT !.response = r.out.response])>>]
    /\ UNCHANGED <<st, turn, chat>>

\* "2. Analyze Intent" and the branch it selects, on the state the request
\* read; an exception ends the request in the outer except
RequestAnalyze(w) ==
    /\ reqs[w].pc = "loaded"
    /\ \E x \in SessionExtractions : \E paired \in {ok \in BOOLEAN : x = << >> \/ ok} :
       \E fail \in 0..1 :
       \E r \in {ChatAnalyze(reqs[w].state, db, paired, x,
                              ChatYes(reqs[w].message), ChatNo(reqs[w].message),
                              [AllOk(<<"B", "2">>) EXCEPT !.fail = fail])} :
          /\ db' = r.out.db
          /\ reqs' = [reqs EXCEPT ![w] =
                        IF r.out.response = "EXCEPTION"
                        THEN Returned(@, r.out.response, TRUE, FALSE)
                        ELSE [@ EXCEPT !.pc = "analyzed",
                                       !.response = r.out.response,
                                       !.new_context = r.out.new_context]]
    /\ UNCHANGED <<st, turn, sessions, chat>>

\* a chat_endpoint whose upsert is not keyed by phone_number
RequestSaveAnyPhone(w) ==
    /\ reqs[w].pc = "analyzed"
    /\ \E save_ok \in {ok \in BOOLEAN : reqs[w].phone = << >> => ~ok} :
          /\ sessions' = IF save_ok
                          THEN [p \in SessionPhones |-> <<SessionRow(reqs[w])>>]
                          ELSE sessions
          /\ reqs' = [reqs EXCEPT ![w] = Returned(@, @.response, FALSE, save_ok)]
    /\ UNCHANGED <<db, st, turn, chat>>

\* "3. Update Session" and the return of the response: the upsert of the
\* row built from what the request read, skipped without a phone and lost
\* when it raises
RequestSave(w) ==
    /\ reqs[w].pc = "analyzed"
    /\ \E save_ok \in {ok \in BOOLEAN : reqs[w].phone = << >> => ~ok} :
          /\ sessions' = IF save_ok
                          THEN [sessions EXCEPT ![reqs[w].phone[1]] = <<SessionRow(reqs[w])>>]
                          ELSE sessions
          /\ reqs' = [reqs EXCEPT ![w] = Returned(@, @.response, FALSE, save_ok)]
    /\ UNCHANGED <<db, st, turn, chat>>

LoadStep == \E w \in Workers : RequestLoad(w)
AnalyzeStep == \E w \in Workers : RequestAnalyze(w)
SaveStep == \E w \in Workers : RequestSave(w)

\* the requests of chat_endpoint interleaved at their calls on chat_sessions
NextSessions == LoadStep \/ AnalyzeStep \/ SaveStep

SpecSessions == InitSessions /\ [][NextSessions]_vars

---------------------------------------------------------------------------
(* Deletion call by call: api.delete_order, api.delete_part and the
   confirmed deletion of chat_endpoint, with the tables historico_status
   and alerta_atraso *)

\* deletion requests in one behaviour
MaxDeletes == 2

\* the tables with the history rows of parts and the alerts of orders
WithDependents(d, history, alerts) ==
    [ordem_pedido |-> d.ordem_pedido, pecas |-> d.pecas,
     n_orders |-> d.n_orders, n_parts |-> d.n_parts,
     historico_status |-> history, alerta_atraso |-> alerts]

\* supabase.table(table).delete().eq(column, value), or .in_(column, value)
\* for a set of values
TableCall(table, column, value) == [table |-> table, column |-> column, value |-> value]

\* the calls of delete_order after its select on pecas answered: the
\* history of the order's parts if it has parts, its alerts, its parts,
\* the order row
OrderDeletesParentFirst(d, codigo_op) ==
    LET part_ids == {q.id_peca : q \in {r \in d.pecas : r.codigo_op = codigo_op}} IN
    <<TableCall("ordem_pedido", "codigo_op", codigo_op)>>
    \o (IF part_ids # {} THEN <<TableCall("historico_status", "id_peca", part_ids)>> ELSE << >>)
    \o <<TableCall("alerta_atraso", "codigo_op", codigo_op),
          TableCall("pecas", "codigo_op", codigo_op)>>

OrderDeletes(d, codigo_op) ==
    LET part_ids == {q.id_peca : q \in {r \in d.pecas : r.codigo_op = codigo_op}} IN
    (IF part_ids # {} THEN <<TableCall("historico_status", "id_peca", part_ids)>> ELSE << >>)
    \o <<TableCall("alerta_atraso", "codigo_op", codigo_op),
          TableCall("pecas", "codigo_op", codigo_op),
          TableCall("ordem_pedido", "codigo_op", codigo_op)>>

\* the calls of delete_part: the history of the part, the part row
PartDeletes(id_peca) ==
    <<TableCall("historico_status", "id_peca", {id_peca}), TableCall("pecas", "id_peca", id_peca)>>

\* the tables after a delete call
Delete(d, c) ==
    IF c.table = "historico_status"
    THEN [d EXCEPT !.historico_status = {h \in @ : h.id_peca \notin c.value}]
    ELSE IF c.table = "alerta_atraso"
    THEN [d EXCEPT !.alerta_atraso = {a \in @ : a.codigo_op # c.value}]
    ELSE IF c.table = "pecas" /\ c.column = "codigo_op"
    THEN [d EXCEPT !.pecas = {q \in @ : q.codigo_op # c.value}]
    ELSE IF c.table = "pecas"
    THEN [d EXCEPT !.pecas = {q \in @ : q.id_peca # c.value}]
    ELSE [d EXCEPT !.ordem_pedido = {o \in @ : o.codigo_op # c.value}]

\* the local variables of a deletion request: the handler, the candidates
\* still to delete, the one being deleted, its calls still to issue, the
\* calls issued for it, and how the request stands
IdleDelete ==
    [handler |-> "none", candidates |-> << >>, target |-> << >>, calls |-> << >>,
     log |-> << >>, status |-> "idle", n |-> 0]

OrderCandidate(codigo_op) == [type |-> "order", data |-> [codigo_op |-> codigo_op]]
PartCandidate(id_peca) == [type |-> "part", data |-> [id_peca |-> id_peca]]

\* the tables hold one or two orders, the first with up to SnapshotParts
\* parts; every part may have history and every order an alert
InitDelete ==
    /\ \E d \in Snapshots \cup {SeedDb} :
       \E history \in SUBSET {[id_peca |-> q.id_peca] : q \in d.pecas} :
       \E alerts \in SUBSET {[codigo_op |-> o.codigo_op] : o \in d.ordem_pedido} :
          db = WithDependents(d, history, alerts)
    /\ st = ResetState
    /\ turn = InitTurn
    /\ sessions = [p \in Phones |-> << >>]
    /\ chat = InitChat
    /\ reqs = [w \in Workers |-> IdleDelete]

\* a worker takes a deletion request
StartDelete(w, handler, candidates) ==
    /\ reqs[w].status # "running"
    /\ reqs[1].n + reqs[2].n < MaxDeletes
    /\ reqs' = [reqs EXCEPT ![w] =
                  [handler |-> handler, candidates |-> candidates, target |-> << >>,
                   calls |-> << >>, log |-> << >>, status |-> "running", n |-> @.n + 1]]
    /\ UNCHANGED <<db, st, turn, sessions, chat>>

\* DELETE /orders/{codigo_op}
DeleteOrderRequest ==
    \E w \in Workers : \E codigo_op \in Codes :
        StartDelete(w, "delete_order", <<OrderCandidate(codigo_op)>>)

\* DELETE /parts/{part_id}
DeletePartRequest ==
    \E w \in Workers : \E id_peca \in 1..SnapshotParts :
        StartDelete(w, "delete_part", <<PartCandidate(id_peca)>>)

\* the confirmed deletion of chat_endpoint: the candidates of the session,
\* one or two of them
ChatDeleteRequest ==
    \E w \in Workers :
    \E candidates \in {<<OrderCandidate(<<"A", "1">>)>>, <<PartCandidate(1)>>,
                        <<OrderCandidate(<<"A", "1">>), OrderCandidate(<<"B", "2">>)>>,
                        <<PartCandidate(1), PartCandidate(2)>>} :
        StartDelete(w, "chat_delete", candidates)

\* the request turns to its next candidate: for an order the select on
\* pecas, which may raise
NextCandidate ==
    \E w \in Workers :
       /\ reqs[w].status = "running"
       /\ reqs[w].calls = << >>
       /\ reqs[w].candidates # << >>
       /\ \E ok \in {v \in BOOLEAN : Head(reqs[w].candidates).type = "part" => v} :
             reqs' = [reqs EXCEPT ![w] =
                        IF ~ok THEN [@ EXCEPT !.status = "error", !.candidates = << >>]
                        ELSE [@ EXCEPT
                                !.target = <<Head(reqs[w].candidates)>>,
                                !.candidates = Tail(@),
                                !.log = << >>,
                                !.calls = IF Head(reqs[w].candidates).type = "order"
                                          THEN OrderDeletes(db,
                                                  Head(reqs[w].candidates).data.codigo_op)
                                          ELSE PartDeletes(
                                                  Head(reqs[w].candidates).data.id_peca)]]
       /\ UNCHANGED <<db, st, turn, sessions, chat>>

\* the request issues its next delete call, which may raise; after the
\* last call of the last candidate it returns (the REST handlers with an
\* error when the last delete removed no row)
NextCall ==
    \E w \in Workers :
       /\ reqs[w].status = "running"
       /\ reqs[w].calls # << >>
       /\ \E ok \in BOOLEAN :
          \E d \in {IF ok THEN Delete(db, Head(reqs[w].calls)) ELSE db} :
             /\ db' = d
             /\ reqs' = [reqs EXCEPT ![w] =
                          IF ~ok
                          THEN [@ EXCEPT !.status = "error", !.calls = << >>,
                                         !.candidates = << >>]
                          ELSE [@ EXCEPT
                                  !.calls = Tail(@),
                                  !.log = Append(@, Head(reqs[w].calls)),
                                  !.status =
                                     IF Tail(reqs[w].calls) # << >> \/ reqs[w].candidates # << >>
                                     THEN "running"
                                     ELSE IF reqs[w].handler # "chat_delete" /\ d = db
                                     THEN "error"
                                     ELSE "done"]]
       /\ UNCHANGED <<st, turn, sessions, chat>>

NextDelete ==
    \/ DeleteOrderRequest
    \/ DeletePartRequest
    \/ ChatDeleteRequest
    \/ NextCandidate
    \/ NextCall

SpecDelete == InitDelete /\ [][NextDelete]_vars

---------------------------------------------------------------------------
(* The REST handlers of api.py as requests of two clients.  A handler that *)
(* issues one table call is one step; create_parts (a select, then an      *)
(* insert) and the deletions (a select or none, then one delete call per   *)
(* table) are one step per table call, so that the calls of two requests   *)
(* interleave.  No schema is part of the repository: a table call either   *)
(* goes through as written or raises.                                      *)

\* requests to the REST handlers in one behaviour
MaxRest == 3

Clients == {<<"a", "n", "a">>, <<"b", "o", "b">>}

\* the bodies of PUT /orders/{codigo_op} and PUT /parts/{part_id}
OrderUpdates == {{<<"nome_cliente", <<"b", "o", "b">>>>}}
PartUpdates  == {{<<"status", <<"O", "K">>>>}}

\* the rows api.get_order answers from (data[0] of the select; 404 when
\* there is none)
GetOrder(d, codigo_op) == {o \in d.ordem_pedido : o.codigo_op = codigo_op}

\* api.get_order_parts
GetOrderParts(d, codigo_op) == {q \in d.pecas : q.codigo_op = codigo_op}

\* the locals of a REST request: the handler, the order code and the part
\* id it addresses, the client name, the update body and the parts it
\* sends, the order row create_parts selected, the delete calls still to
\* issue, how the request stands, the row it returned
IdleRest ==
    [handler |-> "none", codigo_op |-> << >>, id_peca |-> 0, name |-> << >>,
     fields |-> {}, pecas |-> << >>, order_info |-> << >>, calls |-> << >>,
     status |-> "idle", returned |-> << >>, n |-> 0]

\* a client may send its next request
RestFree(w) == reqs[w].status # "running" /\ reqs[1].n + reqs[2].n < MaxRest

\* the locals of a request just received
Began(w, handler) ==
    [IdleRest EXCEPT !.handler = handler, !.status = "running", !.n = reqs[w].n + 1]

\* 200, or the 500 of the handler's except
StatusOf(status) == IF status = 200 THEN "done" ELSE "error"

\* the tables hold nothing, one order, or a snapshot
InitRest ==
    /\ db \in {WithDependents(d, {}, {}) : d \in {EmptyDb, SeedDb} \cup Snapshots}
    /\ st = ResetState
    /\ turn = InitTurn
    /\ sessions = [p \in Phones |-> << >>]
    /\ chat = InitChat
    /\ reqs = [w \in Workers |-> IdleRest]

\* POST /orders: the code is drawn, then one insert
CreateOrderRequest ==
    \E w \in Workers : \E name \in Clients : \E code \in Codes : \E ok \in BOOLEAN :
    \E r \in {ApiCreateOrder(db, DataDict(name, T_date, "num", << >>), code, ok)} :
        /\ RestFree(w)
        /\ db' = r.db
        /\ reqs' = [reqs EXCEPT ![w] =
                      [Began(w, "create_order") EXCEPT
                          !.name = name, !.codigo_op = r.codigo_op,
                          !.status = StatusOf(r.status)]]
        /\ UNCHANGED <<st, turn, sessions, chat>>

\* PUT /orders/{codigo_op}: one update; the answer is data[0]
UpdateOrderRequest ==
    \E w \in Workers : \E codigo_op \in Codes : \E fields \in OrderUpdates :
    \E ok \in BOOLEAN :
    \E r \in {ApiUpdateOrder(db, codigo_op, fields, ok)} :
    \E row \in IF r.status = 200 THEN {<<o>> : o \in GetOrder(r.db, codigo_op)}
                ELSE {<< >>} :
        /\ RestFree(w)
        /\ db' = r.db
        /\ reqs' = [reqs EXCEPT ![w] =
                      [Began(w, "update_order") EXCEPT
                          !.codigo_op = codigo_op, !.fields = fields,
                          !.returned = row, !.status = StatusOf(r.status)]]
        /\ UNCHANGED <<st, turn, sessions, chat>>

\* PUT /parts/{part_id}
UpdatePartRequest ==
    \E w \in Workers : \E id_peca \in 1..SnapshotParts : \E fields \in PartUpdates :
    \E ok \in BOOLEAN :
    \E r \in {ApiUpdatePart(db, id_peca, fields, ok)} :
    \E row \in IF r.status = 200 THEN {<<q>> : q \in {x \in r.db.pecas : x.id_peca = id_peca}}
                ELSE {<< >>} :
        /\ RestFree(w)
        /\ db' = r.db
        /\ reqs' = [reqs EXCEPT ![w] =
                      [Began(w, "update_part") EXCEPT
                          !.id_peca = id_peca, !.fields = fields,
                          !.returned = row, !.status = StatusOf(r.status)]]
        /\ UNCHANGED <<st, turn, sessions, chat>>

\* POST /parts, first call: the select of the order; no row is a 404
CreatePartsSelect ==
    \E w \in Workers : \E codigo_op \in Codes : \E ok \in BOOLEAN :
    \E info \in IF ok /\ GetOrder(db, codigo_op) # {}
                 THEN {<<o>> : o \in GetOrder(db, codigo_op)} ELSE {<< >>} :
        /\ RestFree(w)
        /\ reqs' = [reqs EXCEPT ![w] =
                      [Began(w, "create_parts") EXCEPT
                          !.codigo_op = codigo_op, !.pecas = OnePart,
                          !.order_info = info,
                          !.status = IF info = << >> THEN "error" ELSE "running"]]
        /\ UNCHANGED <<db, st, turn, sessions, chat>>

\* POST /parts, second call: the insert of the rows built from the order
\* row selected
CreatePartsInsert ==
    \E w \in Workers : \E ok \in BOOLEAN :
        /\ reqs[w].handler = "create_parts"
        /\ reqs[w].status = "running"
        /\ IF ok /\ db.n_parts + Len(reqs[w].pecas) <= MaxParts
           THEN /\ db' = [db EXCEPT
                            !.pecas = @ \cup PartRows(reqs[w].pecas, reqs[w].codigo_op,
                                                      reqs[w].order_info[1], db.n_parts),
                            !.n_parts = @ + Len(reqs[w].pecas)]
                /\ reqs' = [reqs EXCEPT ![w].status = "done"]
           ELSE /\ db' = db
                /\ reqs' = [reqs EXCEPT ![w].status = "error"]
        /\ UNCHANGED <<st, turn, sessions, chat>>

\* DELETE /orders/{codigo_op}, first call: the select of its parts
DeleteOrderSelect ==
    \E w \in Workers : \E codigo_op \in Codes : \E ok \in BOOLEAN :
        /\ RestFree(w)
        /\ reqs' = [reqs EXCEPT ![w] =
                      [Began(w, "delete_order") EXCEPT
                          !.codigo_op = codigo_op,
                          !.calls = IF ok THEN OrderDeletes(db, codigo_op) ELSE << >>,
                          !.status = IF ok THEN "running" ELSE "error"]]
        /\ UNCHANGED <<db, st, turn, sessions, chat>>

\* DELETE /parts/{part_id} is received
DeletePartReceived ==
    \E w \in Workers : \E id_peca \in 1..SnapshotParts :
        /\ RestFree(w)
        /\ reqs' = [reqs EXCEPT ![w] =
                      [Began(w, "delete_part") EXCEPT
                          !.id_peca = id_peca, !.calls = PartDeletes(id_peca)]]
        /\ UNCHANGED <<db, st, turn, sessions, chat>>

\* the next delete call of a deletion; the handler answers 404 when its
\* last call removed no row
DeleteCall ==
    \E w \in Workers :
        /\ reqs[w].handler \in {"delete_order", "delete_part"}
        /\ reqs[w].status = "running"
        /\ \E ok \in BOOLEAN :
           \E d \in {IF ok THEN Delete(db, Head(reqs[w].calls)) ELSE db} :
              /\ db' = d
              /\ reqs' = [reqs EXCEPT ![w] =
                            IF ~ok THEN [@ EXCEPT !.status = "error", !.calls = << >>]
                            ELSE [@ EXCEPT
                                    !.calls = Tail(@),
                                    !.status = IF Tail(reqs[w].calls) # << >> THEN "running"
                                               ELSE IF d = db THEN "error" ELSE "done"]]
        /\ UNCHANGED <<st, turn, sessions, chat>>

NextRest ==
    \/ CreateOrderRequest
    \/ UpdateOrderRequest
    \/ UpdatePartRequest
    \/ CreatePartsSelect
    \/ CreatePartsInsert
    \/ DeleteOrderSelect
    \/ DeletePartReceived
    \/ DeleteCall

SpecRest == InitRest /\ [][NextRest]_vars

---------------------------------------------------------------------------
(* Properties of ProductionAgent, over the last process_input call (turn). *)

\* the mutation requests of the last turn
MutationCalls == {i \in DOMAIN turn.calls : turn.calls[i].op \in MutationOps}

\* the requests that carry out a confirmation of each kind
OpsOf(kind) ==
    CASE kind = "order"  -> {"create_order"}
      [] kind = "parts"  -> {"create_parts"}
      [] kind = "delete" -> {"delete_order", "delete_part"}
      [] kind = "update" -> {"update_order", "update_part"}
      [] OTHER -> {}

MutatingKinds == {"order", "parts", "delete", "update"}

\* the last turn was an affirmative message received in an awaiting state
\* that confirms a mutation, and it returned a response
AffirmedMutation ==
    /\ turn.branch = "confirmation"
    /\ turn.start_awaiting \in MutatingKinds
    /\ turn.yes
    /\ ~turn.no
    /\ turn.response # "EXCEPTION"

\* C1: an affirmative message received while awaiting the confirmation of
\* an order, of parts, of a deletion or of an update issues exactly one
\* mutation request, the one of that kind; a turn that starts in the idle
\* state issues none.
C1_OneMutationPerConfirmation ==
    /\ AffirmedMutation =>
          /\ Cardinality(MutationCalls) = 1
          /\ \A i \in MutationCalls : turn.calls[i].op \in OpsOf(turn.start_awaiting)
    /\ (turn.start_awaiting = "None" /\ ~turn.start_partial) => MutationCalls = {}

\* C3: a turn that starts with a confirmation pending or with the value of
\* an update awaited never calls the extractor: the message goes to the
\* confirmation handler or to the partial-update handler.
C3_PendingStateSkipsExtractor ==
    (turn.start_awaiting # "None" \/ turn.start_partial) =>
        /\ ~turn.extracted
        /\ turn.flags = {}
        /\ turn.branch \in {"attached", "confirmation", "partial_update"}
        /\ (~turn.attached /\ turn.start_awaiting # "None") => turn.branch = "confirmation"
        /\ (~turn.attached /\ turn.start_awaiting = "None") => turn.branch = "partial_update"

\* a message was handled while the value of an update was awaited
C3_Witness ==
    /\ turn.start_partial
    /\ turn.branch = "partial_update"
    /\ ~turn.extracted

\* C5: a turn that starts in the idle state or with the value of an update
\* awaited issues no mutation request, and every mutation request is issued
\* from the awaiting state of its kind, entered by a turn that returned a
\* confirmation prompt.
C5_MutationOnlyAfterPrompt ==
    /\ turn.start_awaiting = "None" => MutationCalls = {}
    /\ \A i \in MutationCalls :
          /\ turn.calls[i].op \in OpsOf(turn.start_awaiting)
          /\ turn.start_asked

\* C8: at most one of the awaiting states holds: awaiting_confirmation is a
\* single value, and no confirmation is pending while the value of an
\* update is awaited.
C8_AwaitingStatesExclusive ==
    /\ st.awaiting_confirmation \in
          {"None", "order", "parts", "delete", "update", "post_order_parts"}
    /\ ~(st.awaiting_confirmation # "None" /\ st.partial_update # << >>)

\* the value of an update was received and the update now awaits its
\* confirmation
C8_Witness ==
    /\ turn.start_partial
    /\ turn.branch = "partial_update"
    /\ st.awaiting_confirmation = "update"
    /\ st.partial_update = << >>

EndedConfirmation(t) ==
    /\ t.branch = "confirmation"
    /\ \/ t.no
       \/ t.response \in {"delete_success", "delete_error", "update_success",
                          "update_error", "parts_created"}

\* C11: a turn of ProductionAgent that cancels or completes a confirmation
\* leaves the fields that are not the payload of that confirmation as they
\* were: current_op keeps its value, and current_data survives the end of
\* a deletion or of an update.
C11_CancelKeepsUnrelatedFields ==
    [][(chat' = chat /\ EndedConfirmation(turn')) =>
          /\ st'.current_op = st.current_op
          /\ st.awaiting_confirmation \in {"delete", "update"} =>
                st'.current_data = st.current_data]_vars

\* the fields of the partial record of an order
DataFields == {"nome_cliente", "data_entrega", "preco_total", "pecas"}

\* a data dict holds a value for a field (None, a missing key and null do not)
IsSet(data, k) ==
    /\ data # << >>
    /\ IF k = "preco_total" THEN data[1][k] = "num" ELSE data[1][k] # << >>

\* C13: over the order-creation turns of ProductionAgent, a field of
\* current_data that was set before the turn and that the turn's extracted
\* data (a dict) does not hold keeps its value in current_data; a field the
\* turn's data holds takes the new value.
C13_PartialRecordKeepsFields ==
    [][(chat' = chat /\ turn'.branch = "is_order_intent"
                    /\ turn'.order[1].data # << >>) =>
          \A k \in DataFields :
              IF IsSet(turn'.order[1].data, k)
              THEN st'.current_data[1][k] = turn'.order[1].data[1][k]
              ELSE IsSet(st.current_data, k) =>
                      /\ IsSet(st'.current_data, k)
                      /\ st'.current_data[1][k] = st.current_data[1][k]]_vars

\* C14: ProductionAgent enters the state 'order' only in a turn whose
\* extraction result lists no missing field; a turn whose result lists
\* missing fields leaves the agent idle, stores the data of the result in
\* current_data and issues no repository request.
C14_ConfirmationNeedsNoMissingFields ==
    /\ (st.awaiting_confirmation = "order" /\ turn.start_awaiting # "order") =>
          /\ turn.order # << >>
          /\ turn.order[1].missing = {}
    /\ (turn.order # << >> /\ turn.order[1].missing # {}) =>
          /\ st.awaiting_confirmation = "None"
          /\ st.partial_update = << >>
          /\ st.current_data = turn.order[1].data
          /\ turn.calls = << >>

\* an order intent that lacks the delivery date was received: the agent is
\* idle and holds the client's name as the partial record
C14_Witness ==
    /\ turn.order # << >>
    /\ turn.order[1].missing = {"data_entrega"}
    /\ st.awaiting_confirmation = "None"
    /\ IsSet(st.current_data, "nome_cliente")

\* a payload holds the client's name and the delivery date
HasNameAndDate(data) == IsSet(data, "nome_cliente") /\ IsSet(data, "data_entrega")

\* C15: ProductionAgent never returns from a turn in the state 'order' with
\* a current_data that lacks nome_cliente or data_entrega, and never calls
\* create_order with such a payload.
C15_OrderNeedsNameAndDate ==
    [][chat' = chat =>
          /\ (st'.awaiting_confirmation = "order" /\ turn'.response # "EXCEPTION") =>
                HasNameAndDate(st'.current_data)
          /\ \A i \in DOMAIN turn'.calls :
                turn'.calls[i].op = "create_order" => HasNameAndDate(st.current_data)]_vars

\* the items a search found
Matches(found) == found.orders \cup found.parts
NumMatches(found) == Cardinality(found.orders) + Cardinality(found.parts)

\* the state ProductionAgent awaits after the branch found one item
AwaitingOf(branch) == IF branch = "is_delete_intent" THEN "delete" ELSE "update"

\* C16: when the searches of a delete or update request of ProductionAgent
\* find nothing, the state is left as it was (a pending update value apart,
\* which the request consumed); when they find exactly one item, the
\* candidate stored is that item with its kind and the agent awaits the
\* confirmation of that operation.  The outcome depends on nothing but
\* what the searches found.
C16_DisambiguationOutcome ==
    [][turn'.found # << >> =>
          /\ NumMatches(turn'.found[1]) = 0 =>
                st' = [st EXCEPT !.partial_update = << >>]
          /\ NumMatches(turn'.found[1]) = 1 =>
                /\ st'.awaiting_confirmation = AwaitingOf(turn'.branch)
                /\ st'.candidate # << >>
                /\ st'.candidate[1].data \in Matches(turn'.found[1])
                /\ st'.candidate[1].type =
                      IF turn'.found[1].orders # {} THEN "order" ELSE "part"]_vars

\* the responses of a confirmed operation whose repository call failed
FailureResponses ==
    {"create_order_error", "create_parts_error", "delete_error", "update_error"}

\* C22: when the repository call of a confirmed creation of an order or of
\* parts, deletion or update fails, ProductionAgent is idle at the end of
\* that turn (no confirmation pending, no update value awaited) and the
\* turn issued the call once.
C22_FailureClearsPending ==
    (turn.branch = "confirmation" /\ turn.response \in FailureResponses) =>
        /\ st.awaiting_confirmation = "None"
        /\ st.partial_update = << >>
        /\ Cardinality(MutationCalls) = 1

\* the responses of a confirmation whose stored payload is missing
LostResponses == {"parts_lost", "item_lost", "state_error"}

\* C23: an affirmative message in a confirmation state whose payload is
\* missing (no candidate, no order code or no pending parts, an unknown
\* confirmation type) gets an error message and leaves ProductionAgent
\* idle, not in the awaiting state.
C23_LostPayloadResets ==
    (turn.branch = "confirmation" /\ turn.yes /\ ~turn.no
       /\ turn.response \in LostResponses) =>
        /\ st.awaiting_confirmation = "None"
        /\ st.partial_update = << >>

\* a step in which the request of worker w returns its response
Returns(w) == reqs[w].pc # "done" /\ reqs'[w].pc = "done"

\* C25: a chat_endpoint request in which a call raised still returns a
\* response, and when the call raised before the session save (the select
\* on chat_sessions, the extractor, a call on the tables) the request
\* leaves the persisted rows of chat_sessions as they were
C25_FailureLeavesRecord ==
    [][\A w \in Workers :
          Returns(w) =>
            /\ reqs'[w].response # ""
            /\ (reqs'[w].load_raised \/ reqs'[w].raised) => sessions' = sessions]_vars

\* the state a phone's row holds, {} when there is no row
PersistedState(rows, p) == IF rows[p] = << >> THEN EmptyState ELSE rows[p][1].state

\* the history of the persisted row of phone p, [] without a row
PersistedHistory(rows, p) == IF rows[p] = << >> THEN << >> ELSE rows[p][1].history

\* h is what is left of s after dropping entries from its front
IsSuffix(h, s) == Len(h) <= Len(s) /\ h = SubSeq(s, Len(s) - Len(h) + 1, Len(s))

\* the entries a request appends for its turn
TurnEntries(req) == <<Entry("user", req.message), Entry("assistant", <<req.response>>)>>

\* C26: after every write of a session row by chat_endpoint the persisted
\* history holds at most 20 entries, and it is the history persisted before
\* the write followed by the entries of the writing turn, less entries
\* dropped from the front: chronological, the oldest dropped first
C26_HistoryCapped ==
    [][\A p \in SessionPhones :
          sessions'[p] # sessions[p] =>
            /\ Len(PersistedHistory(sessions', p)) <= HistoryLimit
            /\ \E w \in Workers :
                  /\ Returns(w)
                  /\ reqs[w].phone = <<p>>
                  /\ IsSuffix(PersistedHistory(sessions', p),
                              PersistedHistory(sessions, p) \o TurnEntries(reqs[w]))]_vars

\* C27: chat_endpoint writes the session row at most once per turn, as its
\* last step: the row changes only in the step that ends a request whose
\* extractor and repository calls have all completed without raising, no
\* call on the tables is part of that step or follows it in the turn, and
\* only the row of the request's phone changes; a request that ends
\* earlier (in the outer except) changes no row at any of its steps
C27_SessionWrittenLast ==
    [][sessions' # sessions =>
          \E w \in Workers :
             /\ reqs[w].pc = "analyzed" /\ ~reqs[w].saved
             /\ reqs'[w].pc = "done" /\ reqs'[w].saved /\ ~reqs'[w].raised
             /\ db' = db
             /\ \A v \in Workers \ {w} : reqs'[v] = reqs[v]
             /\ \A p \in SessionPhones :
                   sessions'[p] # sessions[p] => reqs[w].phone = <<p>>]_vars

\* one request created an order and then saved its session; another of the
\* same phone was interrupted by a raising call and the row is still there
C27_Witness ==
    \E w, v \in Workers :
       /\ reqs[w].pc = "done" /\ reqs[w].saved
       /\ reqs[w].response = "order_created_ask_parts"
       /\ reqs[v].pc = "done" /\ reqs[v].raised /\ reqs[v].phone = reqs[w].phone
       /\ PersistedState(sessions, reqs[w].phone[1]).active_order_op = <<"B", "2">>

\* C28: the turns of one phone are serialized, no update of a turn is
\* lost: the row a request writes (its select having succeeded) is the row
\* persisted at the time of the write with the update of this turn added,
\* its entries appended to the persisted history and its new_context
\* merged into the persisted state, as when the turns run one after the
\* other
C28_TurnsSerialized ==
    [][\A w \in Workers :
          (Returns(w) /\ reqs'[w].saved /\ ~reqs[w].load_raised) =>
             sessions'[reqs[w].phone[1]] =
                <<SessionRow([reqs[w] EXCEPT
                                !.state = PersistedState(sessions, reqs[w].phone[1]),
                                !.history = PersistedHistory(sessions, reqs[w].phone[1])])>>]_vars

\* C29: the turns of different phones do not interfere, however they
\* interleave: a step of a request leaves the row of every other phone as
\* it was, the state and history a request works on are those of the row
\* of its own phone at the time of its select, and the row it writes is
\* built from these and from its own turn alone
C29_PhonesIndependent ==
    [][\A w \in Workers :
          reqs'[w] # reqs[w] =>
            /\ \A p \in SessionPhones :
                  reqs'[w].phone # <<p>> => sessions'[p] = sessions[p]
            /\ (reqs'[w].pc = "loaded" /\ reqs'[w].phone # << >> /\ ~reqs'[w].load_raised) =>
                  /\ reqs'[w].state = PersistedState(sessions, reqs'[w].phone[1])
                  /\ reqs'[w].history = PersistedHistory(sessions, reqs'[w].phone[1])
            /\ (Returns(w) /\ reqs'[w].saved) =>
                  sessions'[reqs[w].phone[1]] = <<SessionRow(reqs[w])>>]_vars

\* two requests of different phones have overlapped, each has asked its
\* user to confirm an order, and each row holds its own flow
C29_Witness ==
    \E w, v \in Workers :
       /\ reqs[w].phone = <<"p1">> /\ reqs[v].phone = <<"p2">>
       /\ reqs[w].pc = "done" /\ reqs[w].saved /\ reqs[v].pc = "done" /\ reqs[v].saved
       /\ reqs[w].calls = 1 /\ reqs[v].calls = 1
       /\ PersistedState(sessions, "p1").awaiting_create_confirmation
       /\ PersistedState(sessions, "p2").awaiting_create_confirmation
       /\ Len(PersistedHistory(sessions, "p1")) = HistoryLimit
       /\ Len(PersistedHistory(sessions, "p2")) = 2

\* C30: a request without phone_number runs on the empty state and the
\* empty history whatever the rows of chat_sessions hold, none of its
\* steps changes a row, and so it confirms nothing an earlier call asked:
\* it leaves the table of orders as it was
C30_NoPhoneStateless ==
    [][\A w \in Workers :
          (reqs'[w] # reqs[w] /\ reqs'[w].phone = << >>) =>
             /\ reqs'[w].state = EmptyState
             /\ reqs'[w].history = << >>
             /\ ~reqs'[w].saved
             /\ sessions' = sessions
             /\ db'.ordem_pedido = db.ordem_pedido]_vars

\* a worker's second request has no phone and says "sim" to a complete
\* order while the row of p1 awaits the confirmation of an order: the
\* request asks for the confirmation itself
C30_Witness ==
    \E w \in Workers :
       /\ reqs[w].pc = "done" /\ reqs[w].phone = << >> /\ reqs[w].calls = 2
       /\ reqs[w].message = T_sim
       /\ reqs[w].response = "confirm_order"
       /\ PersistedState(sessions, "p1").awaiting_create_confirmation

\* the tables the calls of a log address, in the order of the calls
TablesOf(log) == [i \in 1..Len(log) |-> log[i].table]

\* s is the beginning of t
StartsOf(s, t) == Len(s) <= Len(t) /\ s = SubSeq(t, 1, Len(s))

\* no part without its order, no history row without its part, no alert
\* without its order
NoOrphans(d) ==
    /\ \A q \in d.pecas : \E o \in d.ordem_pedido : o.codigo_op = q.codigo_op
    /\ \A h \in d.historico_status : \E q \in d.pecas : q.id_peca = h.id_peca
    /\ \A a \in d.alerta_atraso : \E o \in d.ordem_pedido : o.codigo_op = a.codigo_op

\* C21: a deletion removes dependents before their parent.  The calls a
\* request has issued for an order are the beginning of: history of its
\* parts (when the select found parts), alerts, parts, order row, all
\* addressing that order; those issued for a part are the beginning of:
\* history, part row, addressing that part.  When a call removes parts no
\* history row of them is left, when it removes an order no part and no
\* alert of it is left, and so no state, between the calls or after a
\* raising call, holds a dependent without its parent.  The same for
\* delete_order, delete_part and the confirmed deletion of chat_endpoint.
C21_DependentsBeforeParent ==
    [][/\ \A w \in Workers :
             reqs'[w].target # << >> =>
                LET t == reqs'[w].target[1]
                    log == reqs'[w].log
                IN IF t.type = "order"
                   THEN /\ \/ StartsOf(TablesOf(log),
                                        <<"historico_status", "alerta_atraso",
                                          "pecas", "ordem_pedido">>)
                           \/ StartsOf(TablesOf(log),
                                        <<"alerta_atraso", "pecas", "ordem_pedido">>)
                        /\ \A i \in 1..Len(log) :
                              log[i].table # "historico_status" =>
                                 /\ log[i].column = "codigo_op"
                                 /\ log[i].value = t.data.codigo_op
                   ELSE /\ StartsOf(TablesOf(log), <<"historico_status", "pecas">>)
                        /\ \A i \in 1..Len(log) :
                              /\ log[i].column = "id_peca"
                              /\ log[i].value = IF log[i].table = "pecas"
                                                THEN t.data.id_peca ELSE {t.data.id_peca}
       /\ \A q \in db.pecas \ db'.pecas :
             \A h \in db.historico_status : h.id_peca # q.id_peca
       /\ \A o \in db.ordem_pedido \ db'.ordem_pedido :
             /\ \A q \in db.pecas : q.codigo_op # o.codigo_op
             /\ \A a \in db.alerta_atraso : a.codigo_op # o.codigo_op
       /\ NoOrphans(db')]_vars

\* the confirmed deletion of chat_endpoint has deleted an order whose
\* select found parts: the four calls were issued in order and the order
\* is gone; a delete_order request ended in an error after three or four
\* of its calls
C21_Witness ==
    \E w \in Workers :
       /\ reqs[w].handler = "chat_delete"
       /\ reqs[w].status = "done"
       /\ reqs[w].target = <<OrderCandidate(<<"A", "1">>)>>
       /\ TablesOf(reqs[w].log) =
             <<"historico_status", "alerta_atraso", "pecas", "ordem_pedido">>
       /\ \A o \in db.ordem_pedido : o.codigo_op # <<"A", "1">>
       /\ \E v \in Workers :
             /\ reqs[v].handler = "delete_order"
             /\ reqs[v].status = "error"
             /\ Len(reqs[v].log) >= 3

\* C31: in a step of ProductionAgent in which an affirmative message,
\* holding no negative keyword, answers the confirmation of an order, one
\* create_order call is issued; when the order is inserted current_op is
\* the code the repository returned, and the agent then awaits the
\* confirmation of the parts if the confirmed payload held parts and is
\* idle if it held none
C31_CreatedThenPartsOrIdle ==
    [][(turn'.branch = "confirmation" /\ turn'.start_awaiting = "order"
          /\ turn'.yes /\ ~turn'.no) =>
           /\ Len(turn'.calls) = 1
           /\ turn'.calls[1].op = "create_order"
           /\ \A o \in db'.ordem_pedido \ db.ordem_pedido :
                 /\ st'.current_op = o.codigo_op
                 /\ st'.awaiting_confirmation =
                       IF st.current_data[1].pecas # << >> THEN "parts" ELSE "None"]_vars

\* the message of a turn taken while the value of an update was awaited
ValueSaid(yes, no) ==
    CHOOSE m \in ValueMessages : IsYes(m) = yes /\ IsNo(m) = no

NoQueryUpdate(target) ==
    [update_target |-> target, update_query |-> << >>,
     update_fields |-> SetPrice, missing_update_value |-> ""]

\* what _handle_update_intent makes of such a request in the state reached
AgentNoQueryUpdate(target, env) == HandleUpdateIntent(st, db, NoQueryUpdate(target), env)

\* what chat_endpoint's update search makes of it for a phone
ChatNoQueryUpdate(phone, target) ==
    ChatUpdateSearch(LoadState(sessions, <<phone>>, AllOk(<<"A", "1">>)), db,
                     target, << >>, << >>, SetPrice, AllOk(<<"A", "1">>))

\* C33: an update request without query, in a session that holds no last
\* active item, is answered as not found whatever the repository holds:
\* the idle ProductionAgent keeps its state (no candidate, no awaiting
\* state), and chat_endpoint returns no context to store.
C33_NoQueryUpdateNotFound ==
    /\ (st.awaiting_confirmation = "None" /\ st.partial_update = << >>) =>
          \A target \in Targets : \A env \in SearchEnvs :
              /\ AgentNoQueryUpdate(target, env).response = "not_found"
              /\ AgentNoQueryUpdate(target, env).st = st
    /\ \A phone \in Phones :
          LET state == LoadState(sessions, <<phone>>, AllOk(<<"A", "1">>))
          IN  (state.last_active_item = << >> /\ ~state.awaiting_update_confirmation) =>
                \A target \in Targets :
                    /\ ChatNoQueryUpdate(phone, target).response = "not_found"
                    /\ ChatNoQueryUpdate(phone, target).new_context = << >>

\* a REST request of client w answers 200 in this step
Succeeds(w) ==
    /\ reqs'[w].status = "done"
    /\ reqs'[w].n # reqs[w].n \/ reqs[w].status = "running"

\* the rows a step inserts
InsertedOrders == {o \in db'.ordem_pedido : \A e \in db.ordem_pedido : e.id # o.id}
InsertedParts  == {q \in db'.pecas : \A x \in db.pecas : x.id_peca # q.id_peca}

\* the row carries the values of an update body
Carries(row, fields) == \A f \in fields : row[f[1]] = f[2]

\* C34: the repository round trip.  When create_order answers the code c,
\* get_order(c) answers the order just inserted, with the client sent; when
\* update_order(c, fields) answers, the row it returns and the row
\* get_order(c) answers carry the fields; when delete_order(c) answers,
\* get_order(c) finds no order.  Likewise for a part: the rows create_parts
\* inserted are among get_order_parts(c), the row update_part returns and
\* the row of that id carry the fields, and after delete_part no row has
\* that id.
C34_RepositoryRoundTrip ==
    [][\A w \in Workers :
          Succeeds(w) =>
            LET r == reqs'[w] IN
            /\ r.handler = "create_order" =>
                  /\ GetOrder(db', r.codigo_op) # {}
                  /\ \A o \in GetOrder(db', r.codigo_op) :
                        o \in InsertedOrders /\ o.nome_cliente = r.name
            /\ r.handler = "update_order" =>
                  /\ GetOrder(db', r.codigo_op) # {}
                  /\ \A o \in GetOrder(db', r.codigo_op) \cup {r.returned[1]} :
                        Carries(o, r.fields)
            /\ r.handler = "delete_order" => GetOrder(db', r.codigo_op) = {}
            /\ r.handler = "create_parts" =>
                  /\ InsertedParts # {}
                  /\ InsertedParts \subseteq GetOrderParts(db', r.codigo_op)
            /\ r.handler = "update_part" =>
                  /\ r.returned[1].id_peca = r.id_peca
                  /\ \A q \in db'.pecas : q.id_peca = r.id_peca => Carries(q, r.fields)
                  /\ Carries(r.returned[1], r.fields)
            /\ r.handler = "delete_part" =>
                  \A q \in db'.pecas : q.id_peca # r.id_peca]_vars

C36_NoOrphanedParts ==
    [][/\ \A q \in db'.pecas : GetOrder(db', q.codigo_op) # {}
       /\ \A q \in InsertedParts : GetOrder(db, q.codigo_op) # {}
       /\ \A w \in Workers :
             (reqs'[w].handler = "create_parts" /\ reqs'[w].n # reqs[w].n
                /\ GetOrder(db, reqs'[w].codigo_op) = {}) =>
                   reqs'[w].status = "error" /\ db' = db]_vars

\* C37: the code of an order row that is inserted differs from the code of
\* every order row the table holds.
C37_CodesDistinct ==
    [][\A o \in InsertedOrders :
          \A e \in db.ordem_pedido : e.codigo_op # o.codigo_op]_vars

\* what the extractor may return for the message that confirms a create: a
\* complete order of one client or of another
ConfirmingExtractions ==
    {Mk({"is_order_intent"},
        P(<<DataDict(name, T_date, "num", << >>)>>, {}, "", << >>, << >>, "", << >>)) :
        name \in {<<"a", "n", "a">>, <<"b", "o", "b">>}}

\* the order rows of `after` that `before` does not hold
NewOrders(before, after) ==
    {o \in after.ordem_pedido : \A e \in before.ordem_pedido : e.id # o.id}

\* C38: the order a confirmed create inserts is the payload of the prompt
\* that is pending.  ProductionAgent, awaiting the confirmation of an order
\* and given 'sim', inserts the client of the stored current_data, which
\* the prompt presented; chat_endpoint, given 'sim' while the session
\* awaits the confirmation of a create, inserts the client of the stored
\* partial_data whatever the extractor returns for the confirming message.
C38_InsertsPromptedPayload ==
    /\ st.awaiting_confirmation = "order" =>
          \A env \in ConfirmEnvs :
          \A o \in NewOrders(db, HandleConfirmation(st, db, T_sim, env).db) :
              /\ turn.asked
              /\ o.nome_cliente = st.current_data[1].nome_cliente
    /\ \A phone \in Phones :
          LET state == LoadState(sessions, <<phone>>, AllOk(<<"B", "2">>))
          IN  state.awaiting_create_confirmation =>
                \A x \in ConfirmingExtractions :
                \A o \in NewOrders(db, ChatOrderIntent(state, db, x[1], TRUE, FALSE,
                                                       AllOk(<<"B", "2">>)).db) :
                    /\ state.partial_data # << >>
                    /\ o.nome_cliente = state.partial_data[1].nome_cliente

\* C39: in every state of ProductionAgent a candidate is stored exactly
\* when the confirmation of a deletion or of an update is awaited.
C39_CandidateIffAwaited ==
    st.candidate # << >> <=> st.awaiting_confirmation \in {"delete", "update"}

\* the last_active_item of the session row of a phone ({} without a row)
LastActiveItem(rows, phone) ==
    IF rows[phone[1]] = << >> THEN << >> ELSE rows[phone[1]][1].state.last_active_item

\* the queries a search request can carry
SearchQueries == {<<"a">>, <<"a", "1">>, <<"B", "2">>}

\* the session rows after a request of `phone` that searches for `query`
\* with every call answered (api.py:375-405, 748-775)
RowsAfterSearch(phone, query) ==
    LET env   == AllOk(<<"A", "1">>)
        state == LoadState(sessions, <<phone>>, env)
    IN  SaveState(sessions, <<phone>>, state,
                  SearchFound(db, ChatSearchOrders(db, Strip(query)),
                              ChatSearchParts(db, Strip(query))), env)

\* C40: in every reachable state, once a phone has searched, the
\* last_active_item of its session is the record the search returned when
\* it returned exactly one record, and is absent when it returned none or
\* several.
C40_ActiveItemOfLastSearch ==
    \A phone \in Phones : \A query \in SearchQueries :
        LET orders == ChatSearchOrders(db, Strip(query))
            parts  == ChatSearchParts(db, Strip(query))
        IN  LastActiveItem(RowsAfterSearch(phone, query), <<phone>>) =
               IF Cardinality(orders) + Cardinality(parts) # 1 THEN << >>
               ELSE IF orders # {}
               THEN <<[type |-> "order", data |-> CHOOSE o \in orders : TRUE]>>
               ELSE <<[type |-> "part", data |-> CHOOSE q \in parts : TRUE]>>

\* a search that found at least one order and at least one part
Mixed(found) == found # << >> /\ found[1].orders # {} /\ found[1].parts # {}

---------------------------------------------------------------------------
(* Properties of chat_endpoint, over the last request (chat).              *)

\* the session state saved by the last request
SavedState == sessions[chat.phone[1]][1].state

\* C2: after a confirmed creation, deletion or update went through, the
\* session state saved for the turn has the awaiting flag of that operation
\* cleared, and the candidates it consumed.
C2_ConfirmedMutationLeavesIdle ==
    (chat.saved /\ chat.ops # << >>) =>
        /\ chat.response = "order_created_ask_parts" =>
              ~SavedState.awaiting_create_confirmation
        /\ chat.response = "delete_success" =>
              /\ ~SavedState.awaiting_delete_confirmation
              /\ SavedState.delete_candidate = << >>
              /\ SavedState.delete_candidates = << >>
        /\ chat.response = "update_success" =>
              /\ ~SavedState.awaiting_update_confirmation
              /\ SavedState.update_candidate = << >>

\* C4: a request that loads a session state with an awaiting flag set does
\* not call the extractor, and no flag of an extraction result takes part
\* in its handling.
C4_AwaitingSkipsExtractor ==
    chat.start # {} => (~chat.extracted /\ chat.flags = {})

\* the kind of confirmation a table mutation needs
KindOf(op) ==
    CASE op.op = "insert" /\ op.table = "ordem_pedido" -> "create"
      [] op.op = "insert" /\ op.table = "pecas" -> "parts"
      [] op.op = "update" -> "update"
      [] OTHER -> "delete"

\* C6: a request executes an insert, an update or a delete on the tables
\* only if its message is affirmative and a confirmation of that operation
\* was asked on an earlier turn of the same conversation.
C6_MutationOnlyAfterConfirmation ==
    \A i \in DOMAIN chat.ops :
        /\ chat.yes
        /\ KindOf(chat.ops[i]) \in chat.asked_before

\* C9: in every saved session state at most one of the three awaiting
\* flags is true.
C9_OneAwaitingFlag ==
    \A p \in Phones :
        sessions[p] # << >> => Cardinality(Awaiting(sessions[p][1].state)) <= 1

\* the operations the awaiting flags of a session state stand for
PendingKinds(flags) ==
    {k \in {"create", "delete", "update"} :
        \/ k = "create" /\ "awaiting_create_confirmation" \in flags
        \/ k = "delete" /\ "awaiting_delete_confirmation" \in flags
        \/ k = "update" /\ "awaiting_update_confirmation" \in flags}

\* what a session state holds of a confirmation: no flag, no candidate
IdleState(state) ==
    /\ Awaiting(state) = {}
    /\ state.delete_candidate = << >>
    /\ state.delete_candidates = << >>
    /\ state.update_candidate = << >>

\* the branch of chat_endpoint that holds the confirmation of an operation
ConfirmingBranch(kind) ==
    CASE kind = "create" -> "is_order_intent"
      [] kind = "delete" -> "is_delete_intent"
      [] kind = "update" -> "is_update_intent"

\* the last request went to the branch of a confirmation the session awaited
ReachedConfirmation ==
    \E k \in PendingKinds(chat.start) : chat.branch = ConfirmingBranch(k)

\* C12: a message with a negative keyword received while the session
\* awaits the confirmation of a creation, a deletion or an update, and
\* handled by the branch of that operation, executes no mutation of a
\* pending kind, and the session state stored after the request is idle,
\* the candidates dropped.
C12_NegativeCancelsPending ==
    (chat.no /\ ReachedConfirmation) =>
        /\ \A i \in DOMAIN chat.ops : KindOf(chat.ops[i]) \notin PendingKinds(chat.start)
        /\ IdleState(SavedState)

\* a delete search that found several parts and no order
SeveralParts(found) ==
    found # << >> /\ found[1].orders = {} /\ Cardinality(found[1].parts) > 1

\* the parts as the candidates of a batch
PartCandidates(parts) ==
    [i \in DOMAIN PartsList(parts) |-> [type |-> "part", data |-> PartsList(parts)[i]]]

\* C18 as stated: a delete request whose search returns several parts and
\* no order is refused by ProductionAgent and by chat_endpoint alike: the
\* answer asks to be more specific, the session state does not change and
\* no candidate is stored.
C18_SeveralPartsRefusedByBoth ==
    [][/\ (SeveralParts(turn'.found) /\ turn'.branch = "is_delete_intent") =>
             /\ st' = st
             /\ turn'.response = "multiple_found"
       /\ (SeveralParts(chat'.found) /\ chat'.branch = "is_delete_intent") =>
             sessions' = sessions]_vars

\* C18, amended: ProductionAgent refuses such a request (the answer asks to
\* be more specific, the state does not change, no candidate is stored);
\* chat_endpoint does not: it executes nothing, asks for one confirmation,
\* and the session it saves awaits the deletion with those parts as a
\* list-valued candidate.
C18_SeveralPartsRefusedByAgent ==
    [][/\ (SeveralParts(turn'.found) /\ turn'.branch = "is_delete_intent") =>
             /\ st' = st
             /\ turn'.response = "multiple_found"
       /\ (SeveralParts(chat'.found) /\ chat'.branch = "is_delete_intent"
              /\ chat'.turns = chat.turns + 1) =>
             /\ chat'.response = "confirm_delete_batch"
             /\ chat'.ops = << >> /\ db' = db
             /\ chat'.saved =>
                   /\ SavedState'.awaiting_delete_confirmation
                   /\ SavedState'.delete_candidates =
                         PartCandidates(chat'.found[1].parts)]_vars

\* a delete request that found several parts was given to both
\* orchestrators: the agent refused, the session awaits the batch
C18_Witness ==
    /\ SeveralParts(turn.found) /\ turn.branch = "is_delete_intent"
    /\ turn.response = "multiple_found"
    /\ SeveralParts(chat.found) /\ chat.branch = "is_delete_intent"
    /\ chat.response = "confirm_delete_batch" /\ chat.saved
    /\ Len(SavedState.delete_candidates) > 1

\* C24: a turn whose extractor call returns nothing changes no state and
\* issues no repository call: ProductionAgent ends the turn with the state
\* it had, and the session rows hold after the request of chat_endpoint
\* the states they held before it.
C24_ExtractorFailureKeepsState ==
    [][/\ (turn' # turn /\ turn'.branch = "none") =>
             /\ st' = st
             /\ turn'.calls = << >>
             /\ db' = db
       /\ (chat'.turns = chat.turns + 1 /\ chat'.branch = "none") =>
             /\ \A p \in Phones :
                   PersistedState(sessions', p) = PersistedState(sessions, p)
             /\ chat'.ops = << >>
             /\ db' = db]_vars

\* C17: when the searches of a delete or update request return at least
\* one order and at least one part, ProductionAgent stores no candidate and
\* stays out of the awaiting states, and chat_endpoint writes nothing to
\* the session: neither chooses between an order and a part.
C17_NeverGuessesBetweenKinds ==
    [][/\ Mixed(turn'.found) =>
             /\ st'.candidate = st.candidate
             /\ st'.awaiting_confirmation = "None"
       /\ Mixed(chat'.found) => sessions' = sessions]_vars

\* a delete request whose searches returned an order and a part was given
\* to both orchestrators
C17_Witness ==
    /\ Mixed(turn.found) /\ Mixed(chat.found)
    /\ turn.branch = "is_delete_intent" /\ chat.branch = "is_delete_intent"

\* a delete search that found several items, all orders or all parts
SameKindBatch(found) ==
    /\ found # << >>
    /\ Cardinality(found[1].orders) + Cardinality(found[1].parts) > 1
    /\ found[1].orders = {} \/ found[1].parts = {}

\* the records a list of candidates names
ListedOrders(candidates) ==
    {candidates[i].data.codigo_op :
        i \in {j \in DOMAIN candidates : candidates[j].type = "order"}}
ListedParts(candidates) ==
    {candidates[i].data.id_peca :
        i \in {j \in DOMAIN candidates : candidates[j].type = "part"}}

\* the tables without the listed records; the parts of a listed order go
\* with it
WithoutListed(d, candidates) ==
    [d EXCEPT !.ordem_pedido = {o \in @ : o.codigo_op \notin ListedOrders(candidates)},
              !.pecas = {q \in @ : /\ q.id_peca \notin ListedParts(candidates)
                                    /\ q.codigo_op \notin ListedOrders(candidates)}]

\* the state the request loaded was awaiting the deletion of a list
BatchPending ==
    /\ sessions[chat'.phone[1]] # << >>
    /\ sessions[chat'.phone[1]][1].state.awaiting_delete_confirmation
    /\ Len(sessions[chat'.phone[1]][1].state.delete_candidates) > 1

\* C19: in chat_endpoint a delete search that finds several items of one
\* kind saves them as a list-valued candidate under
\* awaiting_delete_confirmation; and an affirmative reply that is answered
\* while such a list is pending deletes every record of the list and no
\* other.
C19_BatchDeletedByOneYes ==
    [][(chat'.turns = chat.turns + 1 /\ chat'.phone # << >>) =>
          /\ (chat'.branch = "is_delete_intent" /\ SameKindBatch(chat'.found)
                 /\ chat'.saved) =>
                /\ SavedState'.awaiting_delete_confirmation
                /\ Len(SavedState'.delete_candidates) > 1
                /\ {SavedState'.delete_candidates[i].data :
                       i \in DOMAIN SavedState'.delete_candidates}
                      = Matches(chat'.found[1])
          /\ (BatchPending /\ chat'.yes /\ ~chat'.no
                 /\ chat'.response # "EXCEPTION") =>
                db' = WithoutListed(db, sessions[chat'.phone[1]][1].state.delete_candidates)]_vars

\* the update calls among the repository calls of a turn
UpdateCalls(calls) ==
    {i \in DOMAIN calls : calls[i].op \in {"update_order", "update_part"}}

\* the call addresses the candidate by its identifier, with its fields
CallOnCandidate(call, candidate) ==
    /\ call.fields = Body(candidate.fields)
    /\ IF candidate.type = "order"
       THEN call.op = "update_order" /\ call.text = candidate.data.codigo_op
       ELSE call.op = "update_part" /\ call.id = candidate.data.id_peca

\* the update operations among the table mutations of a request
UpdateOps(ops) == {i \in DOMAIN ops : ops[i].op = "update"}

\* the tables after the one update of the candidate
CandidateUpdated(d, candidate) ==
    IF candidate.type = "order"
    THEN [d EXCEPT !.ordem_pedido =
            {IF o.codigo_op = candidate.data.codigo_op
             THEN RowUpdate(o, candidate.fields[1]) ELSE o : o \in @}]
    ELSE [d EXCEPT !.pecas =
            {IF q.id_peca = candidate.data.id_peca
             THEN RowUpdate(q, candidate.fields[1]) ELSE q : q \in @}]

\* the operation addresses the candidate by its identifier
OpOnCandidate(op, candidate) ==
    IF candidate.type = "order"
    THEN op.table = "ordem_pedido" /\ op.key = candidate.data.codigo_op
    ELSE op.table = "pecas" /\ op.key = candidate.data.id_peca

\* C20: a confirmed update issues one update call, on the candidate stored
\* by the disambiguation: its codigo_op for an order, its id_peca for a
\* part, with the fields stored with it.  ProductionAgent issues it when
\* the user confirms in the state 'update'; chat_endpoint executes it when
\* it answers that the update succeeded.  No update is issued otherwise.
C20_UpdateTargetsCandidate ==
    [][/\ st' # st =>
             /\ UpdateCalls(turn'.calls) # {} =>
                   /\ Cardinality(UpdateCalls(turn'.calls)) = 1
                   /\ st.awaiting_confirmation = "update"
                   /\ st.candidate # << >>
                   /\ \A i \in UpdateCalls(turn'.calls) :
                         CallOnCandidate(turn'.calls[i], st.candidate[1])
             /\ (st.awaiting_confirmation = "update" /\ st.candidate # << >>
                    /\ turn'.branch = "confirmation" /\ turn'.yes /\ ~turn'.no) =>
                   UpdateCalls(turn'.calls) # {}
       /\ chat'.turns = chat.turns + 1 =>
             /\ UpdateOps(chat'.ops) # {} =>
                   /\ Cardinality(UpdateOps(chat'.ops)) = 1
                   /\ chat'.phone # << >>
                   /\ sessions[chat'.phone[1]] # << >>
                   /\ sessions[chat'.phone[1]][1].state.update_candidate # << >>
                   /\ \A i \in UpdateOps(chat'.ops) :
                         OpOnCandidate(chat'.ops[i],
                             sessions[chat'.phone[1]][1].state.update_candidate[1])
                   /\ db' = CandidateUpdated(db,
                             sessions[chat'.phone[1]][1].state.update_candidate[1])
             /\ chat'.response = "update_success" => UpdateOps(chat'.ops) # {}]_vars

\* both orchestrators executed a confirmed update of an order
C20_Witness ==
    /\ turn.response = "update_success"
    /\ \E i \in UpdateCalls(turn.calls) : turn.calls[i].op = "update_order"
    /\ chat.response = "update_success"
    /\ \E i \in UpdateOps(chat.ops) : chat.ops[i].table = "ordem_pedido"

---------------------------------------------------------------------------
(* Properties of both dispatchers *)

\* the first intent of a priority order among the flags set
FirstOf(order, flags) ==
    IF \E i \in DOMAIN order : order[i] \in flags
    THEN order[CHOOSE i \in DOMAIN order :
                  /\ order[i] \in flags
                  /\ \A j \in 1..(i - 1) : order[j] \notin flags]
    ELSE "none"

\* the last turn of ProductionAgent, and the last request to chat_endpoint,
\* dispatched on an extraction result
AgentDispatched == turn.extracted /\ turn.response # "not_understood"
ChatDispatched  == chat.branch \notin {"init", "unpack"} /\ chat.response # "internal_error"

\* what process_input may await after the branch of an intent, and what a
\* branch of chat_endpoint may ask to confirm
AwaitingAfter(branch) ==
    CASE branch = "is_order_intent"    -> {"order"}
      [] branch = "is_delete_intent"   -> {"None", "delete"}
      [] branch = "is_update_intent"   -> {"None", "update"}
      [] branch = "is_add_part_intent" -> {"None", "parts"}
      [] OTHER -> {"None"}

AskedAfter(branch) ==
    CASE branch = "is_order_intent"    -> {"create", "parts"}
      [] branch = "is_delete_intent"   -> {"delete"}
      [] branch = "is_update_intent"   -> {"update"}
      [] OTHER -> {}

\* one branch ran, that of the first flag of `order` the result sets, and
\* the fallback when it sets none
AgentRuns(order) ==
    AgentDispatched =>
        /\ turn.branch = FirstOf(order, turn.flags)
        /\ st.awaiting_confirmation \in AwaitingAfter(turn.branch)

ChatRuns(order) ==
    ChatDispatched =>
        /\ chat.branch = FirstOf(order, chat.flags)
        /\ AskedBy(chat.response) \subseteq AskedAfter(chat.branch)

====
